---- MODULE Spec2Model ----
(***************************************************************************)
(* Verification model of the metadata pipeline of BayramGurel/MetaData:    *)
(*   - the catalog synchronisation engine (src/load_publish.py,            *)
(*     class CkanUploader), modelled one remote call per step;             *)
(*   - the retry wrapper CkanUploader._execute_action;                     *)
(*   - the recursive archive extraction                                    *)
(*     (src/extract_transform.py, MetadataScanner._extract_zip_recursive). *)
(* Each part has its own specification; the variables of the other parts   *)
(* stay at their initial values.                                           *)
(***************************************************************************)
EXTENDS Integers, Sequences, FiniteSets, TLC

(***************************************************************************)
(* Bounds of the model.                                                    *)
(***************************************************************************)
\* longest metadata list handed to process_list
MaxItems == 2
\* number of pipeline runs (each with a fresh CkanUploader)
MaxRuns == 2
\* number of failing remote calls / preparation errors injected
MaxFaults == 1
\* number of local file alterations between runs
MaxEdits == 1

\* Python's None
None == "None"

(***************************************************************************)
(* The scanned items.  An item is what MetadataScanner.scan() hands to     *)
(* process_list: its absolute path (bestandspad), its relative path as a   *)
(* sequence of parts, its type, and the organisation the transformer maps  *)
(* to owner_org.  Names are lower-case words, on which _generate_slug is   *)
(* the identity.                                                           *)
(***************************************************************************)
Item(path, rel, type, org) == [path |-> path, rel |-> rel, type |-> type, org |-> org]

ItemCatalogue ==
  { Item("/r/a/x", <<"a", "x">>, "PDF", "oa"),
    Item("/r/a/y", <<"a", "y">>, "PDF", "ob"),
    Item("/r/b/a/x", <<"b", "a", "x">>, "PDF", "oa"),
    Item("/r/c/z", <<"c", "z">>, "PDF", None),
    Item("/r/a", <<"a">>, "directory", "oa") }

FilePaths == { it.path : it \in { i \in ItemCatalogue : i.type # "directory" } }

ItemLists == UNION { [1..n -> ItemCatalogue] : n \in 1..MaxItems }

\* the lists of the runs with failing calls
FaultCatalogue == { it \in ItemCatalogue : it.path \in {"/r/a/x", "/r/a/y", "/r/c/z"} }
FaultLists == UNION { [1..n -> FaultCatalogue] : n \in 1..MaxItems }

OtherHash(h) == IF h = "h1" THEN "h2" ELSE "h1"
OtherMeta(m) == IF m = "m1" THEN "m2" ELSE "m1"

\* identifiers the catalog assigns
OrgIdOf(o) == IF o = "oa" THEN "org-oa" ELSE "org-ob"
DatasetIdOf(slug) == IF slug = "a" THEN "ds-a" ELSE "ds-c"
Slugs == {"a", "c"}

VARIABLES
  \* ---- configuration and inputs of the synchronisation engine
  items,          \* metadata_list
  api_key,        \* CkanUploader.api_key is set
  resMapHasHash,  \* the resource field map carries the hash field
  budget,         \* failures that may be injected
  \* ---- the scanned files
  localHash,      \* path -> file_hash of the scanned file (None: no hash)
  localMeta,      \* path -> a mapped metadata field of the scanned file
  edits,          \* local alterations so far
  edited,         \* paths altered since the current run started
  \* ---- remote catalog
  rOrgs,          \* names of the organisations that exist
  rDs,            \* slug -> the dataset record, or NoDataset
  rRes,           \* sequence of resource records, in creation order
  \* ---- CkanUploader (one per run)
  org_cache, dataset_cache, processed_resource_paths,
  \* ---- process_list: position and locals
  pc, idx, org_id, dataset_id, existing_res, action, res_count, ds_ids,
  \* ---- observation
  run,            \* number of the current run
  log,            \* remote calls of the current run, in order
  faults,         \* failures injected so far
  ownerAtCall,    \* owner of the remote dataset when get_or_create_dataset was entered
  callMark,       \* length of the log when get_or_create_dataset was entered
  ret,            \* what the last upsert_resource returned (NoResource: None)
  rResAtStart,    \* the remote resources when the current run started
  unchangedRun    \* no file was altered between the previous run's start and this run's

cfgVars == << items, api_key, resMapHasHash, budget >>
fileVars == << localHash, localMeta, edits, edited >>
remoteVars == << rOrgs, rDs, rRes >>
cacheVars == << org_cache, dataset_cache, processed_resource_paths >>
localVars == << org_id, dataset_id, existing_res, action >>
countVars == << res_count, ds_ids >>
obsVars == << run, rResAtStart, unchangedRun >>
dsCallVars == << ownerAtCall, callMark >>

syncVars == << cfgVars, fileVars, remoteVars, cacheVars, localVars, countVars, obsVars,
               pc, idx, log, faults, dsCallVars, ret >>

VARIABLES
  \* ---- one call of CkanUploader._execute_action
  ea_connected,   \* self.ckan is set
  ea_retries,     \* the retries argument
  ea_delay,       \* the delay argument
  ea_pc,          \* position in _execute_action
  ea_attempt,     \* the loop variable
  ea_last,        \* last_exception
  ea_result,      \* what the call returned or raised
  ea_events       \* invocations of the remote action and sleeps, in order

retryVars == << ea_connected, ea_retries, ea_delay, ea_pc, ea_attempt, ea_last,
                ea_result, ea_events >>

VARIABLES
  \* ---- one call of MetadataScanner._extract_zip_recursive
  z_top,          \* the archive handed to the first call
  z_dirs,         \* directories of the file system
  z_files,        \* files of the file system: path -> content
  z_stack,        \* the frames of the recursion, innermost last
  z_result,       \* what the first call returned
  z_unpacked,     \* the archives opened, in order: resolved path and contents
  z_skipped       \* members rejected as unsafe

zipVars == << z_top, z_dirs, z_files, z_stack, z_result, z_unpacked, z_skipped >>

VARIABLES
  \* ---- one call of DataPipeline.run, or of _process_zip_contents
  entry,          \* the operation under observation: "run" or "contents"
  connected,      \* uploader.is_connected()
  p_pc,           \* position in run, scan and _process_zip_contents
  run_temp_dir,   \* MetadataScanner.run_temp_dir
  scan_temp_dir_to_clean, \* the local of DataPipeline.run
  walk,           \* entries of the scan root not yet visited
  processed_paths, \* the local of scan: resolved paths already met
  all_metadata,   \* the records scan has collected
  files_in_zip,   \* extracted files not yet processed
  max_workers_zip, \* MetadataScanner.max_workers_zip, 0 for None
  futures,        \* the futures of the worker pool, by submitted file
  all_zip_meta,   \* the records _process_zip_contents has collected
  pzc_outcome,    \* how _process_zip_contents went
  items_to_process, \* the local of DataPipeline.run: the list for process_list
  publish_idx,    \* position of process_list in items_to_process
  consumed,       \* paths upsert_resource has taken the file of
  refused,        \* paths upsert_resource found no file at
  exit_path       \* which way run left its try block

pipeVars == << entry, connected, p_pc, run_temp_dir, scan_temp_dir_to_clean, walk,
               processed_paths, items_to_process, max_workers_zip, futures, all_metadata, files_in_zip, all_zip_meta, pzc_outcome, publish_idx,
               consumed, refused, exit_path >>

VARIABLES
  \* ---- one call of _generate_slug for two names, or of transform
  fn_pc,          \* which function is called, and whether it has returned
  fn_names,       \* the two names _generate_slug is called with
  fn_max_length,  \* the max_length it is called with
  fn_slugs,       \* what it returned for them
  fn_metadata,    \* the record transform is called with
  fn_out          \* what transform returned

fnVars == << fn_pc, fn_names, fn_max_length, fn_slugs, fn_metadata, fn_out >>

VARIABLES
  \* ---- Pipeline._process_single_zip (pipeline.py) on one source ZIP
  sz_pc,                       \* position in _process_single_zip
  move_processed,              \* config.move_processed with a processed_dir
  create_organizations,        \* config.create_organizations
  sz_members,                  \* files of the archive that pass the extension filter
  sz_exists,                   \* the paths that exist
  staged_zip_path,             \* ZipProcessor.staged_zip_path
  extract_subdir,              \* ZipProcessor.extract_subdir
  files_to_upload,             \* len(files_to_upload)
  successful_resource_uploads,
  failed_resource_uploads,
  zip_processed_successfully,
  sz_failed                    \* the steps that raised or counted a failure

szVars == << sz_pc, move_processed, create_organizations, sz_members, sz_exists,
             staged_zip_path, extract_subdir, files_to_upload,
             successful_resource_uploads, failed_resource_uploads,
             zip_processed_successfully, sz_failed >>

vars == << syncVars, retryVars, zipVars, pipeVars, fnVars, szVars >>

(***************************************************************************)
(* Outcomes of one remote call made through _execute_action with the       *)
(* default retries = 0: the call answers ("ok"; a NotFound answer is       *)
(* decided by the remote state), or raises NotAuthorized, ValidationError  *)
(* or CKANAPIError.  "exists" is the ValidationError whose error_dict      *)
(* names 'name' with an 'already exists' message.                          *)
(***************************************************************************)
Raising == {"auth", "valid", "api"}
Outcomes == {"ok"} \cup Raising

Allowed(out) == out = "ok" \/ faults < budget
Charge(out) == IF out = "ok" THEN faults ELSE faults + 1

Logged(act, ds, target, out) ==
  Append(log, [act |-> act, ds |-> ds, target |-> target, out |-> out])

EmptyMap == [k \in {} |-> None]
Put(map, k, v) == (k :> v) @@ map
Get(rec, k) == IF k \in DOMAIN rec THEN rec[k] ELSE None

\* the item under work
Cur == items[idx]

(***************************************************************************)
(* _determine_dataset_slug                                                 *)
(***************************************************************************)
DetermineDatasetSlug(it) ==
  LET parts == it.rel IN
  IF it.type = "directory" THEN parts[Len(parts)]
  ELSE IF Len(parts) > 1 THEN parts[Len(parts) - 1]
  ELSE parts[1]

FileName(it) == it.rel[Len(it.rel)]

CurSlug == DetermineDatasetSlug(Cur)

(***************************************************************************)
(* _prepare_upload_info: the payloads of an item                           *)
(***************************************************************************)
FileHash(it) == localHash[it.path]

DatasetPayload(it) == [title |-> FileName(it)]

ResourcePayload(it) ==
  IF resMapHasHash /\ FileHash(it) # None
  THEN [name |-> FileName(it), format |-> localMeta[it.path], hash |-> FileHash(it)]
  ELSE [name |-> FileName(it), format |-> localMeta[it.path]]

(***************************************************************************)
(* The remote catalog's answers                                            *)
(***************************************************************************)
\* what a lookup that finds nothing yields
NoDataset == [id |-> None, owner_org |-> None, title |-> None]
NoResource == [id |-> 0]

\* a resource_search that never finds the record (what the engine relies on
\* not to happen)
SearchNothing(dsid, name) == << >>

\* resource_search by name and package_id: the matching records, oldest first
SearchResults(dsid, name) ==
  SelectSeq(rRes, LAMBDA r : r.package_id = dsid /\ r.name = name)

\* resource_show by id
ShowResource(id) ==
  LET hits == SelectSeq(rRes, LAMBDA r : r.id = id) IN
  IF Len(hits) = 0 THEN NoResource ELSE hits[1]

NextResourceId == Len(rRes) + 1

\* resource_update replaces the record of that id by the payload
ReplaceResource(rec) ==
  [i \in 1..Len(rRes) |-> IF rRes[i].id = rec.id THEN rec ELSE rRes[i]]

(***************************************************************************)
(* process_list, line 313: the loop head.  Prepares the next item or       *)
(* returns the counts.                                                     *)
(***************************************************************************)
NextItem ==
  /\ idx' = idx + 1
  /\ pc' = "loop"
  /\ org_id' = None
  /\ dataset_id' = None
  /\ existing_res' = NoResource
  /\ action' = None

Return ==
  /\ pc = "loop"
  /\ idx > Len(items)
  /\ pc' = "done"
  /\ UNCHANGED << retryVars, zipVars, pipeVars, fnVars, szVars, cfgVars, fileVars, remoteVars, cacheVars, localVars, countVars, obsVars,
                  idx, log, faults, dsCallVars, ret >>

\* _prepare_upload_info succeeded or failed (prep_info.success)
Prepare ==
  /\ pc = "loop"
  /\ idx <= Len(items)
  /\ \E ok \in BOOLEAN :
       /\ ok \/ faults < budget
       /\ faults' = IF ok THEN faults ELSE faults + 1
       /\ IF ok
          THEN /\ pc' = "ensure_org"
               /\ UNCHANGED << idx, localVars >>
          ELSE NextItem
  /\ UNCHANGED << retryVars, zipVars, pipeVars, fnVars, szVars, cfgVars, fileVars, remoteVars, cacheVars, countVars, obsVars,
                  log, dsCallVars, ret >>

(***************************************************************************)
(* get_or_create_organization                                              *)
(***************************************************************************)
\* a cache that never answers
OrgNeverCached(name) == FALSE

\* line 115: if org_name in self.org_cache
OrgCached(name) == name \in DOMAIN org_cache

\* lines 325-330 and 114-115: no organisation, or a cached outcome
EnsureOrg ==
  /\ pc = "ensure_org"
  /\ IF Cur.org = None
     THEN org_id' = None /\ pc' = "ensure_ds"
     ELSE IF OrgCached(Cur.org)
          THEN org_id' = org_cache[Cur.org] /\ pc' = "ensure_ds"
          ELSE org_id' = None /\ pc' = "org_show"
  /\ UNCHANGED << retryVars, zipVars, pipeVars, fnVars, szVars, cfgVars, fileVars, remoteVars, cacheVars, countVars, obsVars,
                  dataset_id, existing_res, action, idx, log, faults, dsCallVars, ret >>

\* lines 118-123 (and the handler, 130-132)
OrgShow ==
  /\ pc = "org_show"
  /\ \E out \in Outcomes :
       /\ Allowed(out)
       /\ faults' = Charge(out)
       /\ log' = Logged("organization_show", None, Cur.org, out)
       /\ IF out # "ok"
          THEN /\ org_cache' = Put(org_cache, Cur.org, None)
               /\ org_id' = None
               /\ pc' = "ensure_ds"
          ELSE IF Cur.org \in rOrgs
               THEN /\ org_cache' = Put(org_cache, Cur.org, OrgIdOf(Cur.org))
                    /\ org_id' = OrgIdOf(Cur.org)
                    /\ pc' = "ensure_ds"
               ELSE IF ~api_key
                    THEN /\ org_cache' = Put(org_cache, Cur.org, None)
                         /\ org_id' = None
                         /\ pc' = "ensure_ds"
                    ELSE /\ pc' = "org_create"
                         /\ UNCHANGED << org_cache, org_id >>
  /\ UNCHANGED << retryVars, zipVars, pipeVars, fnVars, szVars, cfgVars, fileVars, remoteVars, countVars, obsVars,
                  dataset_cache, processed_resource_paths,
                  dataset_id, existing_res, action, idx, dsCallVars, ret >>

\* lines 124-129 (and the handler, 130-132)
OrgCreate ==
  /\ pc = "org_create"
  /\ \E out \in Outcomes :
       /\ Allowed(out)
       /\ faults' = Charge(out)
       /\ log' = Logged("organization_create", None, Cur.org, out)
       /\ IF out # "ok"
          THEN /\ org_cache' = Put(org_cache, Cur.org, None)
               /\ org_id' = None
               /\ UNCHANGED rOrgs
          ELSE /\ rOrgs' = rOrgs \cup {Cur.org}
               /\ org_cache' = Put(org_cache, Cur.org, OrgIdOf(Cur.org))
               /\ org_id' = OrgIdOf(Cur.org)
  /\ pc' = "ensure_ds"
  /\ UNCHANGED << retryVars, zipVars, pipeVars, fnVars, szVars, cfgVars, fileVars, rDs, rRes, countVars, obsVars,
                  dataset_cache, processed_resource_paths,
                  dataset_id, existing_res, action, idx, dsCallVars, ret >>

(***************************************************************************)
(* get_or_create_dataset                                                   *)
(***************************************************************************)
OwnerOf(slug) == IF rDs[slug].id = None THEN "absent" ELSE rDs[slug].owner_org

\* a cache that never answers
DatasetNeverCached(slug) == FALSE

\* line 138: the slug has an outcome in the cache
DatasetCached(slug) == slug \in DOMAIN dataset_cache

\* lines 334 and 137-138: a cached outcome, or the lookup
EnsureDataset ==
  /\ pc = "ensure_ds"
  /\ ownerAtCall' = OwnerOf(CurSlug)
  /\ callMark' = Len(log)
  /\ IF DatasetCached(CurSlug)
     THEN dataset_id' = dataset_cache[CurSlug] /\ pc' = "after_ds"
     ELSE dataset_id' = None /\ pc' = "pkg_show"
  /\ UNCHANGED << retryVars, zipVars, pipeVars, fnVars, szVars, cfgVars, fileVars, remoteVars, cacheVars, countVars, obsVars,
                  org_id, existing_res, action, idx, log, faults, ret >>

\* lines 141-157.  When package_show raises, the handler at line 166 reads
\* existing_ds, which was never bound: UnboundLocalError leaves
\* get_or_create_dataset and process_list.
PkgShow ==
  /\ pc = "pkg_show"
  /\ \E out \in Outcomes :
       /\ Allowed(out)
       /\ faults' = Charge(out)
       /\ log' = Logged("package_show", None, CurSlug, out)
       /\ IF out # "ok"
          THEN /\ pc' = "aborted"
               /\ UNCHANGED << dataset_cache, dataset_id >>
          ELSE IF rDs[CurSlug].id # None
               THEN IF org_id # None /\ rDs[CurSlug].owner_org # org_id
                    THEN /\ dataset_cache' = Put(dataset_cache, CurSlug, None)
                         /\ dataset_id' = None
                         /\ pc' = "after_ds"
                    ELSE /\ pc' = "pkg_update"
                         /\ UNCHANGED << dataset_cache, dataset_id >>
               ELSE IF ~api_key
                    THEN /\ dataset_cache' = Put(dataset_cache, CurSlug, None)
                         /\ dataset_id' = None
                         /\ pc' = "after_ds"
                    ELSE /\ pc' = "pkg_create"
                         /\ UNCHANGED << dataset_cache, dataset_id >>
  /\ UNCHANGED << retryVars, zipVars, pipeVars, fnVars, szVars, cfgVars, fileVars, remoteVars, countVars, obsVars,
                  org_cache, processed_resource_paths,
                  org_id, existing_res, action, idx, dsCallVars, ret >>

\* lines 151-154 (and the handler, 164-175, with existing_ds bound)
PkgUpdate ==
  /\ pc = "pkg_update"
  /\ \E out \in Outcomes :
       /\ Allowed(out)
       /\ faults' = Charge(out)
       /\ log' = Logged("package_update", None, CurSlug, out)
       /\ IF out # "ok"
          THEN /\ dataset_cache' = Put(dataset_cache, CurSlug, None)
               /\ dataset_id' = None
               /\ UNCHANGED rDs
          ELSE /\ rDs' = [rDs EXCEPT ![CurSlug] =
                            [id |-> rDs[CurSlug].id, owner_org |-> org_id,
                             title |-> DatasetPayload(Cur).title]]
               /\ dataset_cache' = Put(dataset_cache, CurSlug, rDs[CurSlug].id)
               /\ dataset_id' = rDs[CurSlug].id
  /\ pc' = "after_ds"
  /\ UNCHANGED << retryVars, zipVars, pipeVars, fnVars, szVars, cfgVars, fileVars, rOrgs, rRes, countVars, obsVars,
                  org_cache, processed_resource_paths,
                  org_id, existing_res, action, idx, dsCallVars, ret >>

\* lines 158-163 (and the handler, 164-175, with existing_ds None).  On
\* "exists" another client has created the slug since package_show.
PkgCreate ==
  /\ pc = "pkg_create"
  /\ \E out \in Outcomes \cup {"exists"} :
       /\ Allowed(out)
       /\ faults' = Charge(out)
       /\ log' = Logged("package_create", None, CurSlug, out)
       /\ IF out = "ok"
          THEN /\ rDs' = [rDs EXCEPT ![CurSlug] =
                            [id |-> DatasetIdOf(CurSlug), owner_org |-> org_id,
                             title |-> DatasetPayload(Cur).title]]
               /\ dataset_cache' = Put(dataset_cache, CurSlug, DatasetIdOf(CurSlug))
               /\ dataset_id' = DatasetIdOf(CurSlug)
               /\ pc' = "after_ds"
               /\ UNCHANGED rOrgs
          ELSE IF out = "exists"
               THEN /\ rDs' = [rDs EXCEPT ![CurSlug] =
                                 [id |-> DatasetIdOf(CurSlug), owner_org |-> OrgIdOf("ob"),
                                  title |-> "other"]]
                    /\ rOrgs' = rOrgs \cup {"ob"}
                    /\ pc' = "pkg_refetch"
                    /\ UNCHANGED << dataset_cache, dataset_id >>
               ELSE /\ dataset_cache' = Put(dataset_cache, CurSlug, None)
                    /\ dataset_id' = None
                    /\ pc' = "after_ds"
                    /\ UNCHANGED << rDs, rOrgs >>
  /\ UNCHANGED << retryVars, zipVars, pipeVars, fnVars, szVars, cfgVars, fileVars, rRes, countVars, obsVars,
                  org_cache, processed_resource_paths,
                  org_id, existing_res, action, idx, dsCallVars, ret >>

\* a re-fetch whose answer is thrown away
RefetchedNone(out, slug) == None

\* lines 170-175: the ID of the record the re-fetch returned, else None
RefetchedId(out, slug) ==
  IF out = "ok" /\ rDs[slug].id # None THEN rDs[slug].id ELSE None

\* lines 169-175: the single re-fetch after a creation conflict
PkgRefetch ==
  /\ pc = "pkg_refetch"
  /\ \E out \in Outcomes :
       /\ Allowed(out)
       /\ faults' = Charge(out)
       /\ log' = Logged("package_show", None, CurSlug, out)
       /\ dataset_cache' = Put(dataset_cache, CurSlug, RefetchedId(out, CurSlug))
       /\ dataset_id' = RefetchedId(out, CurSlug)
  /\ pc' = "after_ds"
  /\ UNCHANGED << retryVars, zipVars, pipeVars, fnVars, szVars, cfgVars, fileVars, remoteVars, countVars, obsVars,
                  org_cache, processed_resource_paths,
                  org_id, existing_res, action, idx, dsCallVars, ret >>

\* a test that takes every outcome for an ID
AnyOutcome(id) == TRUE

\* line 335: if dataset_id
HasId(id) == id # None

\* process_list, lines 335-351
AfterDataset ==
  /\ pc = "after_ds"
  /\ IF ~HasId(dataset_id)
     THEN NextItem /\ UNCHANGED ds_ids
     ELSE /\ ds_ids' = ds_ids \cup {dataset_id}
          /\ IF Cur.type # "directory"
             THEN pc' = "upsert" /\ UNCHANGED << idx, localVars >>
             ELSE NextItem
  /\ UNCHANGED << retryVars, zipVars, pipeVars, fnVars, szVars, cfgVars, fileVars, remoteVars, cacheVars, obsVars,
                  res_count, log, faults, dsCallVars, ret >>

(***************************************************************************)
(* upsert_resource                                                         *)
(***************************************************************************)
\* a guard that never recognises a path
NeverProcessed(path) == FALSE

\* lines 213-214: abs_path_str in self.processed_resource_paths
AlreadyProcessed(path) == path \in processed_resource_paths

\* lines 208-216: the duplicate-path guard
UpsertStart ==
  /\ pc = "upsert"
  /\ IF AlreadyProcessed(Cur.path)
     THEN NextItem /\ ret' = NoResource
     ELSE pc' = "res_search" /\ UNCHANGED << idx, localVars, ret >>
  /\ UNCHANGED << retryVars, zipVars, pipeVars, fnVars, szVars, cfgVars, fileVars, remoteVars, cacheVars, countVars, obsVars,
                  log, faults, dsCallVars >>

\* a decision that never creates
AlwaysUpdate(found) == "resource_update"

\* lines 225-229: create unless the search found a resource with an ID
ActionFor(found) ==
  IF Len(found) > 0 THEN "resource_update" ELSE "resource_create"

\* lines 220-233
ResSearch ==
  /\ pc = "res_search"
  /\ \E out \in Outcomes :
       /\ Allowed(out)
       /\ faults' = Charge(out)
       /\ log' = Logged("resource_search", dataset_id, FileName(Cur), out)
       /\ IF out # "ok"
          THEN NextItem /\ ret' = NoResource
          ELSE LET found == SearchResults(dataset_id, FileName(Cur)) IN
               IF Len(found) > 0
               THEN /\ existing_res' = found[1]
                    /\ action' = ActionFor(found)
                    /\ pc' = "res_show"
                    /\ UNCHANGED << idx, org_id, dataset_id, ret >>
               ELSE /\ existing_res' = NoResource
                    /\ action' = ActionFor(found)
                    /\ pc' = "res_write"
                    /\ UNCHANGED << idx, org_id, dataset_id, ret >>
  /\ UNCHANGED << retryVars, zipVars, pipeVars, fnVars, szVars, cfgVars, fileVars, remoteVars, cacheVars, countVars, obsVars,
                  dsCallVars >>

\* _resource_needs_update, lines 183-198, on the record resource_show returned
SkippedKeys == {"id", "package_id", "upload"}

\* variants of the comparison: one that always asks for an update, one that
\* compares the payload fields only
NeedsUpdateAlways(existing, current_hash, payload) == TRUE

NeedsUpdateFieldsOnly(existing, current_hash, payload) ==
  \E k \in DOMAIN payload \ SkippedKeys : Get(existing, k) # payload[k]

\* a comparison that looks at the hash alone
NeedsUpdateHashOnly(existing, current_hash, payload) ==
  current_hash # None /\ Get(existing, "hash") # current_hash

NeedsUpdate(existing, current_hash, payload) ==
  IF current_hash # None /\ Get(existing, "hash") # current_hash
  THEN TRUE
  ELSE \E k \in DOMAIN payload \ SkippedKeys : Get(existing, k) # payload[k]

\* upsert_resource, lines 224-229: the payload sent, with package_id and id
WritePayload(it, dsid, id) ==
  IF id = 0
  THEN ResourcePayload(it) @@ [package_id |-> dsid]
  ELSE ResourcePayload(it) @@ [package_id |-> dsid, id |-> id]

\* lines 229-231 with _resource_needs_update, lines 179-202
ResShow ==
  /\ pc = "res_show"
  /\ \E out \in Outcomes :
       /\ Allowed(out)
       /\ faults' = Charge(out)
       /\ log' = Logged("resource_show", dataset_id, FileName(Cur), out)
       /\ LET existing == ShowResource(existing_res.id)
              needs == IF out # "ok" \/ existing.id = 0
                       THEN TRUE
                       ELSE NeedsUpdate(existing, FileHash(Cur),
                                        WritePayload(Cur, dataset_id, existing_res.id))
          IN IF needs
             THEN /\ pc' = "res_write"
                  /\ UNCHANGED << idx, localVars, processed_resource_paths, res_count, ret >>
             ELSE /\ processed_resource_paths' = processed_resource_paths \cup {Cur.path}
                  /\ res_count' = res_count + 1
                  /\ ret' = existing_res
                  /\ NextItem
  /\ UNCHANGED << retryVars, zipVars, pipeVars, fnVars, szVars, cfgVars, fileVars, remoteVars, obsVars,
                  org_cache, dataset_cache, ds_ids, dsCallVars >>

\* a set that takes the path whatever the call returned
MarkedAnyway(paths, path, out) == paths \cup {path}

\* lines 243-251: the path is added when the call returned a record with an ID
MarkedIfUpserted(paths, path, out) == IF out = "ok" THEN paths \cup {path} ELSE paths

\* lines 236-251: resource_create or resource_update with the file attached
ResWrite ==
  /\ pc = "res_write"
  /\ \E out \in Outcomes :
       /\ Allowed(out)
       /\ faults' = Charge(out)
       /\ log' = Logged(action, dataset_id, FileName(Cur), out)
       /\ processed_resource_paths' = MarkedIfUpserted(processed_resource_paths, Cur.path, out)
       /\ IF out # "ok"
          THEN /\ ret' = NoResource
               /\ UNCHANGED << rRes, res_count >>
          ELSE LET upserted == IF action = "resource_create"
                               THEN WritePayload(Cur, dataset_id, NextResourceId)
                               ELSE WritePayload(Cur, dataset_id, existing_res.id)
               IN /\ rRes' = IF action = "resource_create"
                             THEN Append(rRes, upserted)
                             ELSE ReplaceResource(upserted)
                  /\ res_count' = res_count + 1
                  /\ ret' = upserted
  /\ NextItem
  /\ UNCHANGED << retryVars, zipVars, pipeVars, fnVars, szVars, cfgVars, fileVars, rOrgs, rDs, obsVars,
                  org_cache, dataset_cache, ds_ids, dsCallVars >>

(***************************************************************************)
(* Between runs: files are altered, and DataPipeline builds a new          *)
(* CkanUploader (fresh caches) for the next run.                           *)
(***************************************************************************)
RunOver == pc \in {"done", "aborted"}

\* a byte of the file changes: another content hash
AlterFile ==
  /\ RunOver /\ run < MaxRuns /\ edits < MaxEdits
  /\ \E p \in FilePaths :
       /\ localHash[p] # None
       /\ localHash' = [localHash EXCEPT ![p] = OtherHash(@)]
       /\ edited' = edited \cup {p}
  /\ edits' = edits + 1
  /\ UNCHANGED << retryVars, zipVars, pipeVars, fnVars, szVars, cfgVars, localMeta, remoteVars, cacheVars, localVars, countVars, obsVars,
                  pc, idx, log, faults, dsCallVars, ret >>

\* a mapped metadata field of the file changes, its bytes do not
AlterMeta ==
  /\ RunOver /\ run < MaxRuns /\ edits < MaxEdits
  /\ \E p \in FilePaths :
       /\ localMeta' = [localMeta EXCEPT ![p] = OtherMeta(@)]
       /\ edited' = edited \cup {p}
  /\ edits' = edits + 1
  /\ UNCHANGED << retryVars, zipVars, pipeVars, fnVars, szVars, cfgVars, localHash, remoteVars, cacheVars, localVars, countVars, obsVars,
                  pc, idx, log, faults, dsCallVars, ret >>

\* CkanUploader.__init__, lines 59-61, and the next process_list
NewRun ==
  /\ RunOver /\ run < MaxRuns
  /\ run' = run + 1
  /\ org_cache' = EmptyMap
  /\ dataset_cache' = EmptyMap
  /\ processed_resource_paths' = {}
  /\ pc' = "loop"
  /\ idx' = 1
  /\ org_id' = None /\ dataset_id' = None /\ existing_res' = NoResource /\ action' = None
  /\ res_count' = 0
  /\ ds_ids' = {}
  /\ log' = << >>
  /\ ownerAtCall' = "absent"
  /\ callMark' = 0
  /\ ret' = NoResource
  /\ rResAtStart' = rRes
  /\ unchangedRun' = (edited = {})
  /\ edited' = {}
  /\ UNCHANGED << retryVars, zipVars, pipeVars, fnVars, szVars, cfgVars, localHash, localMeta, edits, remoteVars, faults >>

(***************************************************************************)
(* Initial states: a first run against a catalog that is empty or holds a  *)
(* dataset "a" of organisation "ob" made by someone else.                  *)
(***************************************************************************)
ForeignDataset == [id |-> DatasetIdOf("a"), owner_org |-> OrgIdOf("ob"), title |-> "other"]

SyncInit(lists) ==
  /\ items \in lists
  /\ api_key \in BOOLEAN
  /\ resMapHasHash \in BOOLEAN
  /\ \E h \in {"h1", None} : localHash = [p \in FilePaths |-> h]
  /\ localMeta = [p \in FilePaths |-> "m1"]
  /\ edits = 0
  /\ edited = {}
  /\ \E foreign \in BOOLEAN :
       /\ rOrgs = IF foreign THEN {"ob"} ELSE {}
       /\ rDs = [s \in Slugs |-> IF foreign /\ s = "a" THEN ForeignDataset ELSE NoDataset]
  /\ rRes = << >>
  /\ org_cache = EmptyMap
  /\ dataset_cache = EmptyMap
  /\ processed_resource_paths = {}
  /\ pc = "loop"
  /\ idx = 1
  /\ org_id = None /\ dataset_id = None /\ existing_res = NoResource /\ action = None
  /\ res_count = 0
  /\ ds_ids = {}
  /\ run = 1
  /\ log = << >>
  /\ faults = 0
  /\ ownerAtCall = "absent"
  /\ callMark = 0
  /\ ret = NoResource
  /\ rResAtStart = << >>
  /\ unchangedRun = FALSE

RunStep ==
  \/ Return \/ Prepare
  \/ EnsureOrg \/ OrgShow \/ OrgCreate
  \/ EnsureDataset \/ PkgShow \/ PkgUpdate \/ PkgCreate
  \/ AfterDataset
  \/ UpsertStart \/ ResSearch \/ ResShow \/ ResWrite
  \/ NewRun

\* process_list handed an empty list: no synchronisation under observation
SyncParked ==
  /\ SyncInit({<< >>})
  /\ api_key /\ resMapHasHash /\ localHash = [p \in FilePaths |-> None]
  /\ rOrgs = {} /\ budget = 0

(***************************************************************************)
(* CkanUploader._execute_action, lines 82-107.  An invocation of the       *)
(* remote action returns a value or raises; the exceptions are told apart  *)
(* by class and by the attempt that raised them.                           *)
(***************************************************************************)
\* longest retry count passed
MaxRetries == 2

DEFAULT_RETRIES == 0
DEFAULT_RETRY_DELAY == 3

RetryCounts == {DEFAULT_RETRIES} \cup (-1 .. MaxRetries)
Delays == 1 .. DEFAULT_RETRY_DELAY

InvokeOutcomes == {"value", "NotFound", "NotAuthorized", "ValidationError",
                   "CKANAPIError", "Exception"}

NoException == [kind |-> None, attempt |-> -1]
Raised(kind, attempt) == [kind |-> kind, attempt |-> attempt]
NoResult == [how |-> "running", kind |-> None, attempt |-> -1]

Invocation(attempt, out) == [ev |-> "invoke", attempt |-> attempt, out |-> out, secs |-> 0]
Sleep(attempt, secs) == [ev |-> "sleep", attempt |-> attempt, out |-> None, secs |-> secs]

\* line 95, with one of the two classes left to the handler of line 96
FailImmediatelyAuthOnly(out) == out = "NotAuthorized"

\* line 95: except (NotAuthorized, ValidationError) as e: raise e
FailImmediately(out) == out \in {"NotAuthorized", "ValidationError"}

\* line 103, off by one
MoreAttemptsInclusive(attempt, retries) == attempt <= retries

\* line 103: if attempt < retries
MoreAttempts(attempt, retries) == attempt < retries

\* line 86
EaEnter ==
  /\ ea_pc = "enter"
  /\ IF ~ea_connected
     THEN /\ ea_pc' = "raised"
          /\ ea_result' = [how |-> "raised", kind |-> "ConnectionError", attempt |-> -1]
     ELSE /\ ea_pc' = "loop"
          /\ UNCHANGED ea_result
  /\ UNCHANGED << ea_connected, ea_retries, ea_delay, ea_attempt, ea_last, ea_events,
                  syncVars, zipVars, pipeVars, fnVars, szVars >>

\* line 90: for attempt in range(retries + 1); a loop that ends falls off the
\* end of the function, which returns None
EaLoop ==
  /\ ea_pc = "loop"
  /\ IF ea_attempt <= ea_retries
     THEN /\ ea_pc' = "try"
          /\ UNCHANGED ea_result
     ELSE /\ ea_pc' = "returned"
          /\ ea_result' = [how |-> "returned", kind |-> None, attempt |-> -1]
  /\ UNCHANGED << ea_connected, ea_retries, ea_delay, ea_attempt, ea_last, ea_events,
                  syncVars, zipVars, pipeVars, fnVars, szVars >>

\* lines 91-101: the invocation and the handlers
EaInvoke ==
  /\ ea_pc = "try"
  /\ \E out \in InvokeOutcomes :
       /\ ea_events' = Append(ea_events, Invocation(ea_attempt, out))
       /\ IF out = "value"
          THEN /\ ea_pc' = "returned"
               /\ ea_result' = [how |-> "returned", kind |-> "value", attempt |-> ea_attempt]
               /\ UNCHANGED ea_last
          ELSE IF out = "NotFound"
          THEN /\ ea_pc' = "returned"
               /\ ea_result' = [how |-> "returned", kind |-> None, attempt |-> ea_attempt]
               /\ UNCHANGED ea_last
          ELSE IF FailImmediately(out)
          THEN /\ ea_pc' = "raised"
               /\ ea_result' = [how |-> "raised", kind |-> out, attempt |-> ea_attempt]
               /\ UNCHANGED ea_last
          ELSE /\ ea_pc' = "failed"
               /\ ea_last' = Raised(out, ea_attempt)
               /\ UNCHANGED ea_result
  /\ UNCHANGED << ea_connected, ea_retries, ea_delay, ea_attempt, syncVars, zipVars, pipeVars, fnVars, szVars >>

\* line 103: time.sleep(delay), then the next attempt
EaSleep ==
  /\ ea_pc = "failed"
  /\ MoreAttempts(ea_attempt, ea_retries)
  /\ ea_events' = Append(ea_events, Sleep(ea_attempt, ea_delay))
  /\ ea_attempt' = ea_attempt + 1
  /\ ea_pc' = "loop"
  /\ UNCHANGED << ea_connected, ea_retries, ea_delay, ea_last, ea_result,
                  syncVars, zipVars, pipeVars, fnVars, szVars >>

\* lines 104-107: the last attempt failed
EaRaiseLast ==
  /\ ea_pc = "failed"
  /\ ~MoreAttempts(ea_attempt, ea_retries)
  /\ ea_pc' = "raised"
  /\ ea_result' = IF ea_last.kind # None
                  THEN [how |-> "raised", kind |-> ea_last.kind, attempt |-> ea_last.attempt]
                  ELSE [how |-> "raised", kind |-> "CKANAPIError", attempt |-> -1]
  /\ UNCHANGED << ea_connected, ea_retries, ea_delay, ea_attempt, ea_last, ea_events,
                  syncVars, zipVars, pipeVars, fnVars, szVars >>

RetryStart ==
  /\ ea_pc = "enter"
  /\ ea_attempt = 0
  /\ ea_last = NoException
  /\ ea_result = NoResult
  /\ ea_events = << >>

RetryInit ==
  /\ ea_connected \in BOOLEAN
  /\ ea_retries \in RetryCounts
  /\ ea_delay \in Delays
  /\ RetryStart

\* no call of _execute_action under observation
RetryParked ==
  /\ ea_connected = TRUE
  /\ ea_retries = DEFAULT_RETRIES
  /\ ea_delay = DEFAULT_RETRY_DELAY
  /\ RetryStart

RetryNext == EaEnter \/ EaLoop \/ EaInvoke \/ EaSleep \/ EaRaiseLast

(***************************************************************************)
(* MetadataScanner._extract_zip_recursive, src/extract_transform.py lines  *)
(* 281-313.  A path is a sequence of components below the root; a          *)
(* component is a sequence of tokens: single characters, and the literals  *)
(* ".zip" and "_nested_", the only tokens that begin with "." and "_".     *)
(* str(path) is the sequence of its tokens with "/" before each component, *)
(* so a prefix of the token sequence is a prefix of the string.            *)
(***************************************************************************)
\* deepest nesting of extraction directories the file system accepts before
\* mkdir fails with "File name too long"
MaxDepth == 3

UP == << ".." >>
ZipName(stem) == << stem, ".zip" >>
IsZipName(name) == name[Len(name)] = ".zip"
\* Path.stem: the name without its last suffix
Stem(name) == IF IsZipName(name) THEN SubSeq(name, 1, Len(name) - 1) ELSE name
\* Path.name, Path.parent
Name(path) == path[Len(path)]
Parent(path) == IF path = << >> THEN path ELSE SubSeq(path, 1, Len(path) - 1)

\* str(path)
RECURSIVE Str(_)
Str(path) ==
  IF path = << >> THEN << >>
  ELSE Str(Parent(path)) \o << "/" >> \o Name(path)

\* str.startswith, line 293
StartsWith(s, p) == Len(p) <= Len(s) /\ SubSeq(s, 1, Len(p)) = p

\* Path.resolve() without symbolic links: ".." steps to the parent
RECURSIVE Resolve(_)
Resolve(path) ==
  IF path = << >> THEN << >>
  ELSE IF Name(path) = UP THEN Parent(Resolve(Parent(path)))
  ELSE Append(Resolve(Parent(path)), Name(path))

\* zipfile's member name made safe by ZipFile.extract: ".." components dropped
Sanitize(name) == SelectSeq(name, LAMBDA c : c # UP)

\* path lies in directory dir or is dir
IsUnder(path, dir) == Len(dir) <= Len(path) /\ SubSeq(path, 1, Len(dir)) = dir

\* mkdir(parents=True, exist_ok=True)
MkdirP(dirs, path) == dirs \cup { SubSeq(path, 1, k) : k \in 0..Len(path) }

Unlink(files, path) == [p \in DOMAIN files \ {path} |-> files[p]]

\* the archives: content identity -> members in central-directory order
Member(name, abs, content) == [name |-> name, abs |-> abs, content |-> content]
File(name) == Member(name, FALSE, "data")

ArchiveMembers(content) ==
  CASE content = "plain" -> << File(<< <<"f">> >>) >>
    [] content = "evil"  -> << File(<< UP, UP, <<"e">> >>),
                               File(<< UP, <<"d", "2">>, <<"f">> >>),
                               Member(<< <<"a">>, <<"f">> >>, TRUE, "data"),
                               File(<< <<"o">>, <<"k">> >>) >>
    [] content = "outer" -> << Member(<< ZipName("i") >>, FALSE, "plain"),
                               Member(<< <<"n">>, ZipName("e") >>, FALSE, "evil"),
                               File(<< <<"g">> >>) >>
    [] content = "deep"  -> << Member(<< ZipName("o") >>, FALSE, "outer"),
                               File(<< <<"h">> >>) >>
    [] content = "bad"   -> << Member(<< ZipName("c") >>, FALSE, "corrupt"),
                               File(<< <<"g">> >>) >>
    [] content = "quine" -> << Member(<< ZipName("q") >>, FALSE, "quine"),
                               File(<< <<"f">> >>) >>
    [] content = "ping"  -> << Member(<< ZipName("b") >>, FALSE, "pong") >>
    [] content = "wrap"  -> << Member(<< ZipName("k") >>, FALSE, "plain") >>
    [] content = "twins" -> << Member(<< <<"a">>, ZipName("i") >>, FALSE, "wrap"),
                               Member(<< <<"b">>, ZipName("i") >>, FALSE, "wrap") >>
    [] content = "pong"  -> << Member(<< ZipName("a") >>, FALSE, "ping") >>
    [] OTHER -> << >>

TopArchives == {"plain", "evil", "outer", "deep", "bad", "quine", "ping", "corrupt", "twins"}

\* the archive handed to the first call, and its extraction directory
TopZip == << <<"s">>, ZipName("z") >>
ExtractDir == << <<"t">>, <<"d">> >>
InitialDirs == { << >>, << <<"s">> >>, << <<"t">> >> }

Frame(zip, dir, processed) ==
  [zip |-> zip, dir |-> dir, processed |-> processed, phase |-> "enter",
   content |-> None, mi |-> 1, todo |-> {}, ok |-> TRUE]

Innermost == z_stack[Len(z_stack)]

\* the innermost call returns: to the first caller, or to the loop of lines
\* 303-310, which folds the result into all_nested_ok and unlinks the archive
ZReturnWith(result) ==
  LET n == Len(z_stack) IN
  IF n = 1
  THEN /\ z_stack' = << >>
       /\ z_result' = IF result THEN "True" ELSE "False"
       /\ UNCHANGED z_files
  ELSE /\ z_stack' = [SubSeq(z_stack, 1, n - 1) EXCEPT ![n - 1].ok = @ /\ result]
       /\ z_files' = Unlink(z_files, Innermost.zip)
       /\ UNCHANGED z_result

\* lines 283-289: the visited check, the extraction directory, the archive opened
ZEnter ==
  /\ z_stack # << >> /\ Innermost.phase = "enter"
  /\ LET fr == Innermost IN
     IF fr.zip \in fr.processed
     THEN ZReturnWith(TRUE) /\ UNCHANGED << z_dirs, z_unpacked >>
     ELSE IF Len(z_stack) > MaxDepth \/ z_files[fr.zip] = "corrupt"
     THEN /\ ZReturnWith(FALSE)
          /\ z_dirs' = IF Len(z_stack) > MaxDepth THEN z_dirs ELSE MkdirP(z_dirs, fr.dir)
          /\ UNCHANGED z_unpacked
     ELSE /\ z_dirs' = MkdirP(z_dirs, fr.dir)
          /\ z_unpacked' = Append(z_unpacked, [path |-> fr.zip, content |-> z_files[fr.zip]])
          /\ z_stack' = [z_stack EXCEPT ![Len(z_stack)] =
                           [fr EXCEPT !.processed = @ \cup {fr.zip},
                                      !.content = z_files[fr.zip],
                                      !.phase = "members"]]
          /\ UNCHANGED << z_files, z_result >>
  /\ UNCHANGED << z_top, z_skipped, syncVars, retryVars, pipeVars, fnVars, szVars >>

\* the resolved target of a member, line 292
MemberTarget(dir, m) == Resolve(IF m.abs THEN m.name ELSE dir \o m.name)

\* lines 290-300: one member
ZMember ==
  /\ z_stack # << >> /\ Innermost.phase = "members"
  /\ LET fr == Innermost
         ms == ArchiveMembers(fr.content)
     IN /\ fr.mi <= Len(ms)
        /\ LET m == ms[fr.mi]
               target == MemberTarget(fr.dir, m)
               dest == fr.dir \o Sanitize(m.name)
           IN IF ~StartsWith(Str(target), Str(Resolve(fr.dir)))
              THEN /\ z_skipped' = z_skipped \cup { << fr.zip, fr.mi >> }
                   /\ UNCHANGED << z_dirs, z_files >>
              ELSE /\ z_dirs' = MkdirP(MkdirP(z_dirs, Parent(target)), Parent(dest))
                   /\ z_files' = Put(z_files, dest, m.content)
                   /\ UNCHANGED z_skipped
        /\ z_stack' = [z_stack EXCEPT ![Len(z_stack)].mi = @ + 1]
  /\ UNCHANGED << z_top, z_result, z_unpacked, syncVars, retryVars, pipeVars, fnVars, szVars >>

\* lines 302-304: extract_dir.rglob("*.zip"), the files among them
ZScan ==
  /\ z_stack # << >> /\ Innermost.phase = "members"
  /\ Innermost.mi > Len(ArchiveMembers(Innermost.content))
  /\ z_stack' = [z_stack EXCEPT ![Len(z_stack)] =
                   [Innermost EXCEPT
                      !.phase = "nested",
                      !.todo = { p \in DOMAIN z_files :
                                   IsUnder(p, Innermost.dir) /\ IsZipName(Name(p)) }]]
  /\ UNCHANGED << z_top, z_dirs, z_files, z_result, z_unpacked, z_skipped,
                  syncVars, retryVars, pipeVars, fnVars, szVars >>

\* line 305
NestedDir(dir, item, zip) == Append(dir, Stem(Name(item)) \o << "_nested_" >> \o Name(zip))

\* lines 304-310: one nested archive, in the order rglob yields them
ZNested ==
  /\ z_stack # << >> /\ Innermost.phase = "nested"
  /\ \E item \in Innermost.todo :
       LET fr == [Innermost EXCEPT !.todo = @ \ {item}] IN
       IF item \notin fr.processed
       THEN /\ z_stack' = Append([z_stack EXCEPT ![Len(z_stack)] = fr],
                                 Frame(item, NestedDir(fr.dir, item, fr.zip), fr.processed))
            /\ UNCHANGED z_files
       ELSE /\ z_stack' = [z_stack EXCEPT ![Len(z_stack)] = fr]
            /\ z_files' = Unlink(z_files, item)
  /\ UNCHANGED << z_top, z_dirs, z_result, z_unpacked, z_skipped, syncVars, retryVars, pipeVars, fnVars, szVars >>

\* line 311
ZReturn ==
  /\ z_stack # << >> /\ Innermost.phase = "nested" /\ Innermost.todo = {}
  /\ ZReturnWith(Innermost.ok)
  /\ UNCHANGED << z_top, z_dirs, z_unpacked, z_skipped, syncVars, retryVars, pipeVars, fnVars, szVars >>

ZipInit ==
  /\ z_top \in TopArchives
  /\ z_dirs = InitialDirs
  /\ z_files = (TopZip :> z_top)
  /\ z_stack = << Frame(TopZip, ExtractDir, {}) >>
  /\ z_result = "running"
  /\ z_unpacked = << >>
  /\ z_skipped = {}

\* no extraction under observation
ZipParked ==
  /\ z_top = None
  /\ z_dirs = InitialDirs
  /\ z_files = << >>
  /\ z_stack = << >>
  /\ z_result = "idle"
  /\ z_unpacked = << >>
  /\ z_skipped = {}

ZipNext == ZEnter \/ ZMember \/ ZScan \/ ZNested \/ ZReturn

(***************************************************************************)
(* DataPipeline.run (main.py), MetadataScanner.scan and                    *)
(* MetadataScanner._process_zip_contents (extract_transform.py).  The file *)
(* system is z_dirs and z_files; the scan root holds at most the archive   *)
(* TopZip and one plain file; the extraction of lines 353-354 is the       *)
(* recursion modelled above.                                               *)
(***************************************************************************)
ScanRoot == << <<"s">> >>
RootFile == << <<"s">>, <<"r">> >>
\* line 397: temp_dir_base / "scan_<timestamp>"
RunTempDir == << <<"t">> >>

\* the value of a path variable that is None
NoPath == << <<"None">> >>

\* Path.relative_to(base) of a path under base
RelativeTo(path, base) == SubSeq(path, Len(base) + 1, Len(path))

\* a metadata record: bestandspad, bestandstype, where the file was found,
\* relative_path, and metadata._extraction_error
Record(path, type, origin, rel, err) ==
  [path |-> path, type |-> type, origin |-> origin, rel |-> rel, err |-> err]

\* a removal that removes nothing
RmtreeNothing(fs, dir) == fs

\* shutil.rmtree(dir, ignore_errors=True), on the directories and on the files
RmtreeDirs(dirs, dir) == { d \in dirs : ~IsUnder(d, dir) }

RmtreeFiles(files, dir) ==
  [p \in { q \in DOMAIN files : ~IsUnder(q, dir) } |-> files[p]]

\* the size of the worker pool when one is configured
MaxWorkers == 2

\* a symbolic link in the scan root that points at RootFile
RootLink == << <<"s">>, <<"l">> >>

\* Path.resolve() of an entry of the scan root
AbsPath(item_path) ==
  IF item_path \in DOMAIN z_files /\ z_files[item_path] = "link" THEN RootFile ELSE item_path

\* Path.is_file(), Path.exists() of a directory
IsFile(path) == AbsPath(path) \in DOMAIN z_files
DirExists(dir) == dir \in z_dirs

Range(seq) == { seq[i] : i \in DOMAIN seq }

\* ---- MetadataScanner._process_zip_contents -----------------------------

\* lines 346-353: no run directory, or the extraction started
PzcEnter ==
  /\ p_pc = "pzc_call"
  /\ IF run_temp_dir = NoPath
     THEN /\ pzc_outcome' = "unset"
          /\ p_pc' = "pzc_returned"
          /\ UNCHANGED << z_stack, z_result >>
     ELSE /\ z_stack' = << Frame(TopZip, ExtractDir, {}) >>
          /\ z_result' = "running"
          /\ p_pc' = "pzc_extract"
          /\ UNCHANGED pzc_outcome
  /\ all_zip_meta' = << >>
  /\ UNCHANGED << syncVars, retryVars, fnVars, szVars, z_top, z_dirs, z_files, z_unpacked, z_skipped,
                  entry, connected, max_workers_zip, futures, processed_paths, items_to_process, run_temp_dir, scan_temp_dir_to_clean, walk,
                  all_metadata, files_in_zip, publish_idx, consumed, refused,
                  exit_path >>

\* line 358: the files under the extraction directory that are no archives
FilesInZip == { p \in DOMAIN z_files : IsUnder(p, ExtractDir) /\ ~IsZipName(Name(p)) }

\* lines 353-358: the extraction has returned; the tree is listed, which can raise
PzcList ==
  /\ p_pc = "pzc_extract" /\ z_result \in {"True", "False"}
  /\ IF z_result = "False"
     THEN /\ pzc_outcome' = "failed"
          /\ p_pc' = "pzc_finally"
          /\ UNCHANGED files_in_zip
     ELSE \E listed \in BOOLEAN :
            IF listed
            THEN /\ files_in_zip' = FilesInZip
                 /\ p_pc' = "pzc_files"
                 /\ UNCHANGED pzc_outcome
            ELSE /\ pzc_outcome' = "raised"
                 /\ p_pc' = "pzc_finally"
                 /\ UNCHANGED files_in_zip
  /\ UNCHANGED << syncVars, retryVars, fnVars, szVars, zipVars,
                  entry, connected, max_workers_zip, futures, processed_paths, items_to_process, run_temp_dir, scan_temp_dir_to_clean, walk,
                  all_metadata, all_zip_meta, publish_idx, consumed, refused,
                  exit_path >>

\* lines 316-341: the record of an extracted file keeps the path it was
\* extracted to
\* extracted to; lines 324-326: its relative path is the archive's relative
\* path, then the path of the file below the extraction directory
CombinedRel(item_path) == RelativeTo(TopZip, ScanRoot) \o RelativeTo(item_path, ExtractDir)

ProcessExtractedItem(item_path) ==
  IF IsFile(item_path)
  THEN << Record(item_path, "PDF", "archive", CombinedRel(item_path), None) >>
  ELSE << >>

\* line 365: the files go to the worker pool
UsePool == max_workers_zip > 0 /\ Cardinality(files_in_zip) > 1

\* lines 375-379: one extracted file, in the order of the listing, which is
\* any order
PzcFile ==
  /\ p_pc = "pzc_files" /\ ~UsePool
  /\ \E f \in files_in_zip :
       /\ all_zip_meta' = all_zip_meta \o ProcessExtractedItem(f)
       /\ files_in_zip' = files_in_zip \ {f}
  /\ UNCHANGED << syncVars, retryVars, fnVars, szVars, zipVars,
                  entry, connected, max_workers_zip, futures, processed_paths, items_to_process, p_pc, run_temp_dir, scan_temp_dir_to_clean, walk,
                  all_metadata, pzc_outcome, publish_idx, consumed, refused,
                  exit_path >>

\* the loop of lines 375-379 is over
PzcFilesDone ==
  /\ p_pc = "pzc_files" /\ ~UsePool /\ files_in_zip = {}
  /\ pzc_outcome' = "ok"
  /\ p_pc' = "pzc_finally"
  /\ UNCHANGED << syncVars, retryVars, fnVars, szVars, zipVars,
                  entry, connected, max_workers_zip, futures, processed_paths, items_to_process, run_temp_dir, scan_temp_dir_to_clean, walk,
                  all_metadata, files_in_zip, all_zip_meta, publish_idx, consumed,
                  refused, exit_path >>

\* ---- the worker pool of lines 365-374 ------------------------------------

\* a future: not started, running in a worker, finished with the worker's
\* return value, or finished and met by the loop of the submitting thread
Future(state, result) == [state |-> state, result |-> result]

Running(futs) == { f \in DOMAIN futs : futs[f].state = "running" }

\* lines 367-368: every file is submitted
PoolSubmit ==
  /\ p_pc = "pzc_files" /\ UsePool
  /\ futures' = [f \in files_in_zip |-> Future("pending", << >>)]
  /\ files_in_zip' = {}
  /\ p_pc' = "pzc_pool"
  /\ UNCHANGED << syncVars, retryVars, fnVars, szVars, zipVars,
                  entry, connected, max_workers_zip, processed_paths, items_to_process,
                  run_temp_dir, scan_temp_dir_to_clean, walk, all_metadata,
                  all_zip_meta, pzc_outcome, publish_idx, consumed, refused, exit_path >>

\* a worker that appends its record to the list itself
WorkerAppends(list, result) == list \o result

\* lines 316-341: a worker hands its record back as its return value and
\* leaves the list of the submitting thread alone
WorkerWrites(list, result) == list

\* a free worker of the pool takes a pending call
WorkerStart ==
  /\ p_pc = "pzc_pool"
  /\ Cardinality(Running(futures)) < max_workers_zip
  /\ \E f \in DOMAIN futures :
       /\ futures[f].state = "pending"
       /\ futures' = [futures EXCEPT ![f].state = "running"]
  /\ UNCHANGED << syncVars, retryVars, fnVars, szVars, zipVars,
                  entry, connected, max_workers_zip, processed_paths, items_to_process,
                  p_pc, run_temp_dir, scan_temp_dir_to_clean, walk, all_metadata,
                  files_in_zip, all_zip_meta, pzc_outcome, publish_idx, consumed,
                  refused, exit_path >>

\* a worker returns from process_func, lines 363-364
WorkerFinish ==
  /\ p_pc = "pzc_pool"
  /\ \E f \in Running(futures) :
       LET result == ProcessExtractedItem(f) IN
       /\ futures' = [futures EXCEPT ![f] = Future("done", result)]
       /\ all_zip_meta' = WorkerWrites(all_zip_meta, result)
  /\ UNCHANGED << syncVars, retryVars, fnVars, szVars, zipVars,
                  entry, connected, max_workers_zip, processed_paths, items_to_process,
                  p_pc, run_temp_dir, scan_temp_dir_to_clean, walk, all_metadata,
                  files_in_zip, pzc_outcome, publish_idx, consumed, refused,
                  exit_path >>

\* lines 369-373: the submitting thread meets a finished future and appends
\* its result
PoolCollect ==
  /\ p_pc = "pzc_pool"
  /\ \E f \in DOMAIN futures :
       /\ futures[f].state = "done"
       /\ all_zip_meta' = all_zip_meta \o futures[f].result
       /\ futures' = [futures EXCEPT ![f].state = "met"]
  /\ UNCHANGED << syncVars, retryVars, fnVars, szVars, zipVars,
                  entry, connected, max_workers_zip, processed_paths, items_to_process,
                  p_pc, run_temp_dir, scan_temp_dir_to_clean, walk, all_metadata,
                  files_in_zip, pzc_outcome, publish_idx, consumed, refused,
                  exit_path >>

\* a loop that ends with the first future it has met
AsCompletedFirst(futs) == \E f \in DOMAIN futs : futs[f].state = "met"

\* line 369: as_completed is exhausted when every future has been met
AsCompletedOver(futs) == \A f \in DOMAIN futs : futs[f].state = "met"

\* the loop of lines 369-373 is over and the executor is shut down
PoolDone ==
  /\ p_pc = "pzc_pool" /\ AsCompletedOver(futures)
  /\ pzc_outcome' = "ok"
  /\ p_pc' = "pzc_finally"
  /\ UNCHANGED << syncVars, retryVars, fnVars, szVars, zipVars,
                  entry, connected, max_workers_zip, futures, processed_paths,
                  items_to_process, run_temp_dir, scan_temp_dir_to_clean, walk,
                  all_metadata, files_in_zip, all_zip_meta, publish_idx, consumed,
                  refused, exit_path >>

\* lines 380-385: the finally clause, then the return of all_zip_meta
PzcFinally ==
  /\ p_pc = "pzc_finally"
  /\ z_dirs' = IF DirExists(ExtractDir) THEN RmtreeDirs(z_dirs, ExtractDir) ELSE z_dirs
  /\ z_files' = IF DirExists(ExtractDir) THEN RmtreeFiles(z_files, ExtractDir) ELSE z_files
  /\ p_pc' = "pzc_returned"
  /\ UNCHANGED << syncVars, retryVars, fnVars, szVars, z_top, z_stack, z_result, z_unpacked, z_skipped,
                  entry, connected, max_workers_zip, futures, processed_paths, items_to_process, run_temp_dir, scan_temp_dir_to_clean, walk,
                  all_metadata, files_in_zip, all_zip_meta, pzc_outcome, publish_idx,
                  consumed, refused, exit_path >>

\* ---- DataPipeline.run and MetadataScanner.scan -------------------------

\* an uploader that always passes for connected
AlwaysConnected == TRUE

\* load_publish.py lines 79-80: the connection test of the constructor left a
\* client behind
IsConnected == connected

\* main.py lines 57-65: the connection gate
PipeStart ==
  /\ p_pc = "start"
  /\ IF ~IsConnected
     THEN /\ exit_path' = "not_connected"
          /\ p_pc' = "finally"
          /\ UNCHANGED scan_temp_dir_to_clean
     ELSE /\ scan_temp_dir_to_clean' = run_temp_dir
          /\ p_pc' = "scan"
          /\ UNCHANGED exit_path
  /\ UNCHANGED << syncVars, retryVars, fnVars, szVars, zipVars,
                  entry, connected, max_workers_zip, futures, processed_paths, items_to_process, run_temp_dir, walk, all_metadata, files_in_zip,
                  all_zip_meta, pzc_outcome, publish_idx, consumed, refused >>

\* extract_transform.py lines 390-403: the run directory is named and made
ScanBegin ==
  /\ p_pc = "scan"
  /\ run_temp_dir' = RunTempDir
  /\ z_dirs' = MkdirP(z_dirs, RunTempDir)
  /\ all_metadata' = << >>
  /\ walk' = { p \in DOMAIN z_files : Parent(p) = ScanRoot }
  /\ processed_paths' = {}
  /\ p_pc' = "walk"
  /\ UNCHANGED << syncVars, retryVars, fnVars, szVars, z_top, z_files, z_stack, z_result, z_unpacked,
                  z_skipped, entry, connected, max_workers_zip, futures, items_to_process,
                  scan_temp_dir_to_clean, files_in_zip,
                  all_zip_meta, pzc_outcome, publish_idx, consumed, refused,
                  exit_path >>

\* a resolved path that is never taken for met before
SeenNever(abs_path, processed) == FALSE

\* line 410: the resolved path was met before in this walk
Seen(abs_path, processed) == abs_path \in processed

\* an extractor whose failure leaves no trace in the record
ExtractionErrorNone(content) == None

\* lines 109-135 and the _extract_specific_metadata methods: what ends up in
\* metadata._extraction_error.  A file without read permission gets a record
\* too (line 130); a file its extractor cannot read gets the extractor's
\* message (line 118).
ExtractionError(content) ==
  CASE content = "locked" -> "Permission denied"
    [] content = "broken" -> "failed"
    [] OTHER -> None

\* lines 96-138: the record of a path, or nothing when the path has vanished
\* (lines 262-263 and 109, 129)
GetMetadata(abs_path, vanished) ==
  IF vanished \/ ~IsFile(abs_path)
  THEN << >>
  ELSE << Record(abs_path, IF IsZipName(Name(abs_path)) THEN "ZIP" ELSE "PDF", "root",
                 RelativeTo(abs_path, ScanRoot), ExtractionError(z_files[abs_path])) >>

\* lines 405-426: one entry of the walk.  A resolved path met before is passed
\* over (lines 409-411).  The path can have vanished since the directory was
\* listed.  For an archive the record of the archive file is kept (line 417);
\* line 418 then calls self._process_zip_sequentially, which MetadataScanner
\* does not define: the AttributeError is caught at line 425 and the walk
\* goes on.
ScanEntry ==
  /\ p_pc = "walk"
  /\ \E e \in walk :
       LET abs_path == AbsPath(e) IN
       /\ walk' = walk \ {e}
       /\ IF Seen(abs_path, processed_paths)
          THEN UNCHANGED << processed_paths, all_metadata, z_files >>
          ELSE /\ processed_paths' = processed_paths \cup {abs_path}
               /\ \E vanished \in BOOLEAN :
                    /\ all_metadata' = all_metadata \o GetMetadata(abs_path, vanished)
                    /\ z_files' = IF vanished /\ IsFile(abs_path)
                                  THEN Unlink(z_files, abs_path) ELSE z_files
  /\ UNCHANGED << syncVars, retryVars, fnVars, szVars, z_top, z_dirs, z_stack, z_result, z_unpacked,
                  z_skipped, entry, connected, max_workers_zip, futures, p_pc, run_temp_dir, items_to_process,
                  scan_temp_dir_to_clean, files_in_zip, all_zip_meta, pzc_outcome,
                  publish_idx, consumed, refused, exit_path >>

\* lines 428-430 and 438-443: an error outside the per-entry handler
ScanCrash ==
  /\ p_pc = "walk"
  /\ z_dirs' = IF DirExists(run_temp_dir) THEN RmtreeDirs(z_dirs, run_temp_dir) ELSE z_dirs
  /\ z_files' = IF DirExists(run_temp_dir) THEN RmtreeFiles(z_files, run_temp_dir) ELSE z_files
  /\ run_temp_dir' = NoPath
  /\ p_pc' = "scanned"
  /\ UNCHANGED << syncVars, retryVars, fnVars, szVars, z_top, z_stack, z_result, z_unpacked, z_skipped,
                  entry, connected, max_workers_zip, futures, processed_paths, items_to_process, scan_temp_dir_to_clean, walk, all_metadata,
                  files_in_zip, all_zip_meta, pzc_outcome, publish_idx, consumed,
                  refused, exit_path >>

\* lines 435-436: the walk is over
ScanEnd ==
  /\ p_pc = "walk" /\ walk = {}
  /\ p_pc' = "scanned"
  /\ UNCHANGED << syncVars, retryVars, fnVars, szVars, zipVars,
                  entry, connected, max_workers_zip, futures, processed_paths, items_to_process, run_temp_dir, scan_temp_dir_to_clean, walk,
                  all_metadata, files_in_zip, all_zip_meta, pzc_outcome, publish_idx,
                  consumed, refused, exit_path >>

\* a run that does not look at the scanner's directory after the scan
CleanTargetBeforeScan(before, after) == before

\* main.py line 68: the directory of this scan
CleanTarget(before, after) == after

\* main.py lines 66-73: the scan has returned
AfterScan ==
  /\ p_pc = "scanned"
  /\ scan_temp_dir_to_clean' = CleanTarget(scan_temp_dir_to_clean, run_temp_dir)
  /\ IF all_metadata = << >>
     THEN exit_path' = "empty" /\ p_pc' = "finally"
     ELSE p_pc' = "validate" /\ UNCHANGED exit_path
  /\ UNCHANGED << syncVars, retryVars, fnVars, szVars, zipVars,
                  entry, connected, max_workers_zip, futures, processed_paths, items_to_process, run_temp_dir, walk, all_metadata, files_in_zip,
                  all_zip_meta, pzc_outcome, publish_idx, consumed, refused >>

\* a validation that keeps a record only when it found nothing
KeptIfClean(issues) == issues = {}

\* main.py lines 84-88: the record goes on the list whatever the issues
Kept(issues) == TRUE

\* extract_transform.py lines 448-457: the issues validate reports for a
\* record.  An extraction error is one (line 451); a PDF whose extraction
\* failed has no title and no page count either (lines 458-463).
Issues(item_meta) ==
  IF item_meta.err = None THEN {}
  ELSE {"_extraction_error"}
       \cup (IF item_meta.type = "PDF" THEN {"titel", "aantal_paginas"} ELSE {})

\* main.py lines 78-90 and 113-116: every record is validated and put on the
\* list for publishing, unless the validator raises
Validate ==
  /\ p_pc = "validate"
  /\ \E raised \in BOOLEAN :
       IF raised
       THEN /\ exit_path' = "validation_raised" /\ p_pc' = "finally"
            /\ UNCHANGED << publish_idx, items_to_process >>
       ELSE /\ items_to_process' = SelectSeq(all_metadata, LAMBDA r : Kept(Issues(r)))
            /\ p_pc' = "publish" /\ publish_idx' = 1 /\ UNCHANGED exit_path
  /\ UNCHANGED << syncVars, retryVars, fnVars, szVars, zipVars,
                  entry, connected, max_workers_zip, futures, processed_paths, run_temp_dir, scan_temp_dir_to_clean,
                  walk, all_metadata, files_in_zip, all_zip_meta, pzc_outcome, consumed,
                  refused >>

\* main.py lines 103-108, load_publish.py lines 312-351 and 211: one record
\* of process_list.  The dataset is resolved or not; upsert_resource leaves a
\* path that is no file alone; an error that escapes process_list ends the try
\* block of run.
Publish ==
  /\ p_pc = "publish" /\ publish_idx <= Len(items_to_process)
  /\ \E out \in {"upsert", "no_dataset", "raised"} :
       LET path == items_to_process[publish_idx].path IN
       /\ consumed' = IF out = "upsert" /\ IsFile(path) THEN consumed \cup {path} ELSE consumed
       /\ refused' = IF out = "upsert" /\ ~IsFile(path) THEN refused \cup {path} ELSE refused
       /\ IF out = "raised"
          THEN exit_path' = "publish_raised" /\ p_pc' = "finally" /\ UNCHANGED publish_idx
          ELSE publish_idx' = publish_idx + 1 /\ UNCHANGED << exit_path, p_pc >>
  /\ UNCHANGED << syncVars, retryVars, fnVars, szVars, zipVars,
                  entry, connected, max_workers_zip, futures, processed_paths, items_to_process, run_temp_dir, scan_temp_dir_to_clean, walk,
                  all_metadata, files_in_zip, all_zip_meta, pzc_outcome >>

\* main.py lines 110-111: process_list has returned
Published ==
  /\ p_pc = "publish" /\ publish_idx > Len(items_to_process)
  /\ exit_path' = "published"
  /\ p_pc' = "finally"
  /\ UNCHANGED << syncVars, retryVars, fnVars, szVars, zipVars,
                  entry, connected, max_workers_zip, futures, processed_paths, items_to_process, run_temp_dir, scan_temp_dir_to_clean, walk,
                  all_metadata, files_in_zip, all_zip_meta, pzc_outcome, publish_idx,
                  consumed, refused >>

\* main.py lines 119-132: the finally clause, then run returns
Finally ==
  /\ p_pc = "finally"
  /\ LET clean == scan_temp_dir_to_clean # NoPath /\ DirExists(scan_temp_dir_to_clean) IN
     /\ z_dirs' = IF clean THEN RmtreeDirs(z_dirs, scan_temp_dir_to_clean) ELSE z_dirs
     /\ z_files' = IF clean THEN RmtreeFiles(z_files, scan_temp_dir_to_clean) ELSE z_files
  /\ p_pc' = "returned"
  /\ UNCHANGED << syncVars, retryVars, fnVars, szVars, z_top, z_stack, z_result, z_unpacked, z_skipped,
                  entry, connected, max_workers_zip, futures, processed_paths, items_to_process, run_temp_dir, scan_temp_dir_to_clean, walk,
                  all_metadata, files_in_zip, all_zip_meta, pzc_outcome, publish_idx,
                  consumed, refused, exit_path >>

\* the plain file of the scan root: well-formed, one its extractor fails on,
\* or one without read permission
RootFileKinds == {"data", "broken", "locked"}

\* the scan root: the archive, the plain file, a link to it, or none of them
RootFiles(top, plain, link) ==
  (IF top = None THEN << >> ELSE (TopZip :> top))
  @@ (IF plain = None THEN << >> ELSE (RootFile :> plain))
  @@ (IF link THEN (RootLink :> "link") ELSE << >>)

\* a pipeline constructed and about to run, or a scanner whose scan made (or
\* did not make) the run directory and that is handed the archive of the root
PipeInit ==
  /\ entry \in {"run", "contents"}
  /\ connected \in BOOLEAN
  /\ z_top \in TopArchives \cup {None}
  /\ \E plain \in RootFileKinds \cup {None}, link \in BOOLEAN :
       /\ z_files = RootFiles(z_top, plain, link)
       /\ entry = "contents" => (plain = None /\ ~link)
  /\ run_temp_dir \in {NoPath, RunTempDir}
  /\ max_workers_zip \in {0, MaxWorkers}
  /\ IF entry = "run"
     THEN /\ p_pc = "start"
          /\ run_temp_dir = NoPath
          /\ max_workers_zip = 0
     ELSE /\ p_pc = "pzc_call"
          /\ connected /\ z_top # None
  /\ z_dirs = IF run_temp_dir = NoPath THEN { << >>, ScanRoot }
                                     ELSE MkdirP({ << >>, ScanRoot }, RunTempDir)
  /\ z_stack = << >>
  /\ z_result = "idle"
  /\ z_unpacked = << >>
  /\ z_skipped = {}
  /\ scan_temp_dir_to_clean = NoPath
  /\ walk = {}
  /\ processed_paths = {}
  /\ items_to_process = << >>
  /\ all_metadata = << >>
  /\ files_in_zip = {}
  /\ futures = << >>
  /\ all_zip_meta = << >>
  /\ pzc_outcome = "none"
  /\ publish_idx = 0
  /\ consumed = {}
  /\ refused = {}
  /\ exit_path = "none"

\* no pipeline under observation
PipeParked ==
  /\ entry = None
  /\ connected = FALSE
  /\ max_workers_zip = 0
  /\ p_pc = "idle"
  /\ run_temp_dir = NoPath
  /\ scan_temp_dir_to_clean = NoPath
  /\ walk = {}
  /\ processed_paths = {}
  /\ items_to_process = << >>
  /\ all_metadata = << >>
  /\ files_in_zip = {}
  /\ futures = << >>
  /\ all_zip_meta = << >>
  /\ pzc_outcome = "none"
  /\ publish_idx = 0
  /\ consumed = {}
  /\ refused = {}
  /\ exit_path = "none"

PipeNext ==
  \/ PipeStart \/ ScanBegin \/ ScanEntry \/ ScanCrash \/ ScanEnd \/ AfterScan
  \/ Validate \/ Publish \/ Published \/ Finally
  \/ PzcEnter \/ ZipNext \/ PzcList \/ PzcFile \/ PzcFilesDone \/ PzcFinally
  \/ PoolSubmit \/ WorkerStart \/ WorkerFinish \/ PoolCollect \/ PoolDone


(***************************************************************************)
(* Slugs and CKAN fields: CkanUploader._generate_slug (load_publish.py     *)
(* lines 256-259) and CkanTransformer._slugify, transform                  *)
(* (extract_transform.py lines 479-496).  A string is a sequence of        *)
(* one-character strings.                                                  *)
(***************************************************************************)
MaxNameLen == 3
MaxSlugLen == 2

\* the characters of names: a lower-case letter, an upper-case letter, white
\* space, a dot, and a character that is neither a word character nor a hyphen
Chars == {"a", "B", " ", ".", "("}
Strings == UNION { [1..n -> Chars] : n \in 0..MaxNameLen }

\* a value that is None, and the literals 'unnamed' and 'Untitled'
NoValue == << "None" >>
Unnamed == << "unnamed" >>
Untitled == << "Untitled" >>

\* Python's truth of a string or None
Truthy(v) == v # NoValue /\ v # << >>

\* str.lower()
Lower(s) == [i \in DOMAIN s |-> IF s[i] = "B" THEN "b" ELSE s[i]]

\* str.strip(chars): the characters of cs taken off both ends
RECURSIVE LStrip(_, _)
LStrip(s, cs) == IF s # << >> /\ Head(s) \in cs THEN LStrip(Tail(s), cs) ELSE s
RECURSIVE RStrip(_, _)
RStrip(s, cs) ==
  IF s # << >> /\ s[Len(s)] \in cs THEN RStrip(SubSeq(s, 1, Len(s) - 1), cs) ELSE s
Strip(s, cs) == RStrip(LStrip(s, cs), cs)

\* re.sub('[cs]+', '-', s): every run of characters of cs becomes one hyphen
RECURSIVE SubRuns(_, _)
SubRuns(s, cs) ==
  IF s = << >> THEN << >>
  ELSE IF Head(s) \in cs THEN << "-" >> \o SubRuns(LStrip(s, cs), cs)
  ELSE << Head(s) >> \o SubRuns(Tail(s), cs)

\* re.sub(r'[^\w-]', '', s): of the characters at hand "(" is the one removed
OnlyWord(s) == SelectSeq(s, LAMBDA c : c # "(")

\* s[:n]
Truncate(s, n) == SubSeq(s, 1, IF Len(s) < n THEN Len(s) ELSE n)

\* load_publish.py lines 256-259
GenerateSlug(name, max_length) ==
  IF ~Truthy(name) THEN Unnamed
  ELSE LET lowered == Strip(Lower(name), {" "})
           dashed == SubRuns(lowered, {" ", ".", "_"})
           word == OnlyWord(dashed)
           single == SubRuns(word, {"-"})
           slug == Truncate(Strip(single, {"-"}), max_length)
       IN IF slug = << >> THEN Unnamed ELSE slug

\* extract_transform.py lines 479-480: the statements after "if not t:" share
\* its line and so belong to its body; for a non-empty t the function falls
\* off its end
Slugify(t) == IF ~Truthy(t) THEN Unnamed ELSE NoValue

\* lines 482-494, for a mapping of titel to title and of name to name: the
\* values are mapped as they are (line 490), a value that is None is left out
\* (line 485), then the defaults of title and name
Transform(metadata) ==
  LET mapped_title == metadata.titel
      title == IF Truthy(mapped_title) THEN mapped_title
               ELSE IF metadata.has_name THEN metadata.bestandsnaam ELSE Untitled
      mapped_name == metadata.name
  IN [title |-> title,
      name |-> IF Truthy(mapped_name) THEN mapped_name ELSE Slugify(title)]

\* the records transform is called with
Titles == { NoValue, << >>, << "a" >>, << "B", " ", "a" >> }
FileNames == { << >>, << "a", ".", "B" >>, << "(", "a" >> }
MetadataInputs ==
  [titel : Titles, name : { NoValue, << >>, << "a" >> },
   has_name : BOOLEAN, bestandsnaam : FileNames]

\* _generate_slug is called for two names with one max_length
CallGenerateSlug ==
  /\ fn_pc = "slug"
  /\ fn_slugs' = << GenerateSlug(fn_names[1], fn_max_length), GenerateSlug(fn_names[2], fn_max_length) >>
  /\ fn_pc' = "slugs_returned"
  /\ UNCHANGED << fn_names, fn_max_length, fn_metadata, fn_out, syncVars, retryVars, zipVars, pipeVars, szVars >>

\* transform is called for one record
CallTransform ==
  /\ fn_pc = "transform"
  /\ fn_out' = Transform(fn_metadata)
  /\ fn_pc' = "transform_returned"
  /\ UNCHANGED << fn_names, fn_max_length, fn_slugs, fn_metadata, syncVars, retryVars, zipVars, pipeVars, szVars >>

NoRecord == [titel |-> NoValue, name |-> NoValue, has_name |-> FALSE, bestandsnaam |-> << >>]
NoOut == [title |-> NoValue, name |-> NoValue]

FnInit ==
  /\ fn_pc \in {"slug", "transform"}
  /\ fn_slugs = << NoValue, NoValue >>
  /\ fn_out = NoOut
  /\ IF fn_pc = "slug"
     THEN /\ fn_names \in Strings \X Strings
          /\ fn_max_length \in 1..MaxSlugLen
          /\ fn_metadata = NoRecord
     ELSE /\ fn_names = << << >>, << >> >>
          /\ fn_max_length = 1
          /\ fn_metadata \in MetadataInputs

\* no function under observation
FnParked ==
  /\ fn_pc = "idle"
  /\ fn_names = << << >>, << >> >>
  /\ fn_max_length = 1
  /\ fn_slugs = << NoValue, NoValue >>
  /\ fn_metadata = NoRecord
  /\ fn_out = NoOut

FnNext == CallGenerateSlug \/ CallTransform


(***************************************************************************)
(* The ZIP-per-dataset pipeline: Pipeline._process_single_zip with         *)
(* ZipProcessor and Pipeline._publish_to_ckan (pipeline.py).  Removing a   *)
(* file or a directory of the staging area succeeds.                       *)
(***************************************************************************)
MaxFiles == 2

\* the source ZIP, its copy and its extraction directory in the staging
\* area (lines 279-282), and its place in the processed directory
SourcePath == "source_path"
StagedPath == "staged_zip_path_potential"
ExtractSubdir == "extract_subdir_potential"
ProcessedPath == "dest_path"

szConfig == << move_processed, create_organizations, sz_members >>
szCounts == << files_to_upload, successful_resource_uploads, failed_resource_uploads >>

\* the step raised: control goes to the handler of lines 438-441
Raise(step) ==
  /\ sz_failed' = sz_failed \cup {step}
  /\ sz_pc' = "except"

\* ZipProcessor.stage, lines 284-294.  mkdir of the staging directory is
\* outside the try block; a copy that fails may leave a part of the file
Stage ==
  /\ sz_pc = "stage"
  /\ \E out \in {"ok", "mkdir_failed", "copy_failed"} :
       IF out = "ok"
       THEN /\ staged_zip_path' = StagedPath
            /\ sz_exists' = sz_exists \cup {StagedPath}
            /\ sz_pc' = "extract"
            /\ UNCHANGED sz_failed
       ELSE /\ staged_zip_path' = IF out = "mkdir_failed" THEN None ELSE StagedPath
            /\ \E partial \in BOOLEAN :
                 sz_exists' = IF out = "copy_failed" /\ partial
                              THEN sz_exists \cup {StagedPath} ELSE sz_exists
            /\ Raise("stage")
  /\ UNCHANGED << szConfig, szCounts, extract_subdir, zip_processed_successfully,
                  syncVars, retryVars, zipVars, pipeVars, fnVars >>

\* ZipProcessor.extract, lines 296-339: the files to upload, or the
\* extraction directory removed again and the error raised
Extract ==
  /\ sz_pc = "extract"
  /\ IF StagedPath \notin sz_exists
     THEN Raise("extract") /\ UNCHANGED << extract_subdir, sz_exists, files_to_upload >>
     ELSE /\ extract_subdir' = ExtractSubdir
          /\ \E out \in {"ok", "bad_zip", "io_error"} :
               IF out = "ok"
               THEN /\ sz_exists' = sz_exists \cup {ExtractSubdir}
                    /\ files_to_upload' = sz_members
                    /\ sz_pc' = "publish"
                    /\ UNCHANGED sz_failed
               ELSE /\ sz_exists' = sz_exists \ {ExtractSubdir}
                    /\ Raise("extract")
                    /\ UNCHANGED files_to_upload
  /\ UNCHANGED << szConfig, staged_zip_path, successful_resource_uploads,
                  failed_resource_uploads, zip_processed_successfully,
                  syncVars, retryVars, zipVars, pipeVars, fnVars >>

\* _publish_to_ckan, lines 461-463: nothing to publish
PublishStart ==
  /\ sz_pc = "publish"
  /\ sz_pc' = IF files_to_upload = 0 THEN "succeeded" ELSE "org"
  /\ UNCHANGED << szConfig, szCounts, sz_exists, staged_zip_path, extract_subdir,
                  zip_processed_successfully, sz_failed,
                  syncVars, retryVars, zipVars, pipeVars, fnVars >>

\* lines 488-557: check_organization_exists and what follows its errors
CheckOrganization ==
  /\ sz_pc = "org"
  /\ \E out \in {"found", "not_found", "permission", "connection"} :
       IF out = "found"
       THEN sz_pc' = "dataset" /\ UNCHANGED sz_failed
       ELSE IF out \in {"not_found", "permission"} /\ create_organizations
       THEN sz_pc' = "org_create" /\ UNCHANGED sz_failed
       ELSE Raise("organization")
  /\ UNCHANGED << szConfig, szCounts, sz_exists, staged_zip_path, extract_subdir,
                  zip_processed_successfully,
                  syncVars, retryVars, zipVars, pipeVars, fnVars >>

\* lines 498-507 and 523-545: create_organization
CreateOrganization ==
  /\ sz_pc = "org_create"
  /\ \E created \in BOOLEAN :
       IF created
       THEN sz_pc' = "dataset" /\ UNCHANGED sz_failed
       ELSE Raise("organization")
  /\ UNCHANGED << szConfig, szCounts, sz_exists, staged_zip_path, extract_subdir,
                  zip_processed_successfully,
                  syncVars, retryVars, zipVars, pipeVars, fnVars >>

\* lines 568-573: get_or_create_dataset returns the package or raises;
\* get_existing_resources never raises
GetOrCreateDataset ==
  /\ sz_pc = "dataset"
  /\ \E found_or_created \in BOOLEAN :
       IF found_or_created
       THEN sz_pc' = "upload" /\ UNCHANGED sz_failed
       ELSE Raise("dataset")
  /\ UNCHANGED << szConfig, szCounts, sz_exists, staged_zip_path, extract_subdir,
                  zip_processed_successfully,
                  syncVars, retryVars, zipVars, pipeVars, fnVars >>

\* lines 578-592: one file of the loop; an error of upload_resource is counted
UploadResource ==
  /\ sz_pc = "upload"
  /\ successful_resource_uploads + failed_resource_uploads < files_to_upload
  /\ \E uploaded \in BOOLEAN :
       IF uploaded
       THEN /\ successful_resource_uploads' = successful_resource_uploads + 1
            /\ UNCHANGED << failed_resource_uploads, sz_failed >>
       ELSE /\ failed_resource_uploads' = failed_resource_uploads + 1
            /\ sz_failed' = sz_failed \cup {"resource"}
            /\ UNCHANGED successful_resource_uploads
  /\ UNCHANGED << szConfig, sz_pc, sz_exists, staged_zip_path, extract_subdir,
                  files_to_upload, zip_processed_successfully,
                  syncVars, retryVars, zipVars, pipeVars, fnVars >>

\* a publication that reports no failure
NoneFailed(n) == FALSE

\* line 596: if failed_resource_uploads > 0
AnyFailed(n) == n > 0

\* lines 594-606: the end of the loop
PublishEnd ==
  /\ sz_pc = "upload"
  /\ successful_resource_uploads + failed_resource_uploads = files_to_upload
  /\ sz_pc' = IF AnyFailed(failed_resource_uploads) THEN "except" ELSE "succeeded"
  /\ UNCHANGED << szConfig, szCounts, sz_exists, staged_zip_path, extract_subdir,
                  zip_processed_successfully, sz_failed,
                  syncVars, retryVars, zipVars, pipeVars, fnVars >>

\* _process_single_zip, lines 434-436
Succeeded ==
  /\ sz_pc = "succeeded"
  /\ zip_processed_successfully' = TRUE
  /\ sz_pc' = "finally"
  /\ UNCHANGED << szConfig, szCounts, sz_exists, staged_zip_path, extract_subdir, sz_failed,
                  syncVars, retryVars, zipVars, pipeVars, fnVars >>

\* lines 438-441: the handler
Failed ==
  /\ sz_pc = "except"
  /\ sz_pc' = "finally"
  /\ UNCHANGED << szConfig, szCounts, sz_exists, staged_zip_path, extract_subdir,
                  zip_processed_successfully, sz_failed,
                  syncVars, retryVars, zipVars, pipeVars, fnVars >>

\* line 444 with cleanup_staging, lines 342-352, and _safe_remove_dir: the
\* staged copy and the extraction directory go, where they were set
CleanupStaging ==
  /\ sz_pc = "finally"
  /\ sz_exists' = sz_exists \ {staged_zip_path, extract_subdir}
  /\ sz_pc' = "move"
  /\ UNCHANGED << szConfig, szCounts, staged_zip_path, extract_subdir,
                  zip_processed_successfully, sz_failed,
                  syncVars, retryVars, zipVars, pipeVars, fnVars >>

\* lines 445-449 with move_to_processed, lines 367-386: an error of the move
\* is logged and the file stays
MoveToProcessed ==
  /\ sz_pc = "move"
  /\ \E moved \in BOOLEAN :
       sz_exists' = IF move_processed /\ zip_processed_successfully /\ moved
                    THEN (sz_exists \ {SourcePath}) \cup {ProcessedPath}
                    ELSE sz_exists
  /\ sz_pc' = "done"
  /\ UNCHANGED << szConfig, szCounts, staged_zip_path, extract_subdir,
                  zip_processed_successfully, sz_failed,
                  syncVars, retryVars, zipVars, pipeVars, fnVars >>

SingleZipInit ==
  /\ sz_pc = "stage"
  /\ move_processed \in BOOLEAN
  /\ create_organizations \in BOOLEAN
  /\ sz_members \in 0..MaxFiles
  /\ sz_exists = {SourcePath}
  /\ staged_zip_path = None
  /\ extract_subdir = None
  /\ files_to_upload = 0
  /\ successful_resource_uploads = 0
  /\ failed_resource_uploads = 0
  /\ zip_processed_successfully = FALSE
  /\ sz_failed = {}

\* no source ZIP under observation
SingleZipParked ==
  /\ sz_pc = "idle"
  /\ move_processed = FALSE
  /\ create_organizations = FALSE
  /\ sz_members = 0
  /\ sz_exists = {}
  /\ staged_zip_path = None
  /\ extract_subdir = None
  /\ files_to_upload = 0
  /\ successful_resource_uploads = 0
  /\ failed_resource_uploads = 0
  /\ zip_processed_successfully = FALSE
  /\ sz_failed = {}

SingleZipNext ==
  \/ Stage \/ Extract \/ PublishStart \/ CheckOrganization \/ CreateOrganization
  \/ GetOrCreateDataset \/ UploadResource \/ PublishEnd \/ Succeeded \/ Failed
  \/ CleanupStaging \/ MoveToProcessed

(***************************************************************************)
(* Properties of the synchronisation engine                                *)
(***************************************************************************)
WriteActions == {"organization_create", "package_create", "package_update",
                 "resource_create", "resource_update"}

\* positions of the run's log that hold one of the given remote actions
Entries(acts) == { i \in DOMAIN log : log[i].act \in acts }

\* the files of the list, and the (dataset, resource name) each is published as
ListedFiles == { items[i] : i \in { j \in DOMAIN items : items[j].type # "directory" } }
TargetOf(it) == << DatasetIdOf(DetermineDatasetSlug(it)), FileName(it) >>
DistinctTargets == \A p, q \in ListedFiles : p # q => TargetOf(p) # TargetOf(q)

\* the payload carries the file's hash whenever the file has one
HashCarried == \A p \in ListedFiles : FileHash(p) # None => "hash" \in DOMAIN ResourcePayload(p)

\* a run after a complete run, with no file altered in between
RepeatedRun == run >= 2 /\ unchangedRun

StartRes(it) ==
  LET hits == SelectSeq(rResAtStart,
                        LAMBDA r : << r.package_id, r.name >> = TargetOf(it)) IN
  IF Len(hits) = 0 THEN NoResource ELSE hits[1]

HashDiffers(it) ==
  /\ StartRes(it).id # 0
  /\ FileHash(it) # None
  /\ Get(StartRes(it), "hash") # FileHash(it)

FieldsUnchanged(it) ==
  \A k \in DOMAIN ResourcePayload(it) \ {"hash"} :
     Get(StartRes(it), k) = ResourcePayload(it)[k]

FileUnchanged(it) ==
  StartRes(it).id # 0 /\ ~HashDiffers(it) /\ FieldsUnchanged(it)

\* p is the one file whose hash differs from the hash stored on its resource
OnlyChanged(p) ==
  /\ HashDiffers(p) /\ FieldsUnchanged(p)
  /\ \A q \in ListedFiles \ {p} : FileUnchanged(q)

\* the run has ended and no file was altered since it started
RunEnded == pc = "done" /\ edited = {}

OneUpdateFor(p) ==
  /\ Cardinality(Entries({"resource_update"})) = 1
  /\ \A i \in Entries({"resource_update"}) : << log[i].ds, log[i].target >> = TargetOf(p)
  /\ Entries({"resource_create"}) = {}

\* C2 (as stated): when exactly one file's content hash differs from the hash
\* stored on its existing remote resource and everything else is unchanged,
\* the run issues exactly one resource_update, for that file's resource, and
\* no resource_create.
C2_ChangeDetection ==
  \A p \in ListedFiles : (RunEnded /\ OnlyChanged(p)) => OneUpdateFor(p)

\* C2 (amended): the same, provided no other file of the list is published
\* under the same dataset and resource name as the changed file.
C2_ChangeDetectionDistinct ==
  \A p \in ListedFiles :
     (RunEnded /\ OnlyChanged(p)
        /\ \A q \in ListedFiles \ {p} : TargetOf(q) # TargetOf(p))
     => OneUpdateFor(p)

\* a run over two files, one of them altered since its hash was stored
C2_Witness ==
  /\ RunEnded /\ run >= 2
  /\ Cardinality(ListedFiles) = 2 /\ DistinctTargets
  /\ \E p \in ListedFiles :
       /\ OnlyChanged(p)
       /\ Get(StartRes(p), "hash") = "h1" /\ FileHash(p) = "h2"
       /\ OneUpdateFor(p)

\* the resource found by resource_search is stored with the local hash and
\* with the payload's value in every payload field
Matches ==
  LET r == ShowResource(existing_res.id) IN
  /\ r.id # 0
  /\ Get(r, "hash") = FileHash(Cur)
  /\ \A k \in DOMAIN ResourcePayload(Cur) : Get(r, k) = ResourcePayload(Cur)[k]

\* C3: when upsert_resource finds a remote resource of the same name whose
\* stored hash equals the local hash and whose payload fields all equal the
\* payload, it issues no resource_create or resource_update (the step after
\* resource_show is the next item), leaves the catalog as it is, returns the
\* existing record and records the path as processed.
C3_NoOpOnMatch ==
  [][ (pc = "res_show" /\ Matches
         /\ log' = Logged("resource_show", dataset_id, FileName(Cur), "ok"))
      => /\ pc' = "loop"
         /\ rRes' = rRes
         /\ ret' = existing_res
         /\ ret' = ShowResource(existing_res.id)
         /\ res_count' = res_count + 1
         /\ Cur.path \in processed_resource_paths' ]_vars

\* upsert_resource has just returned the record it found, sending nothing
C3_Witness ==
  /\ pc = "loop" /\ Len(log) > 0
  /\ log[Len(log)].act = "resource_show" /\ log[Len(log)].out = "ok"
  /\ ret.id # 0 /\ ret = ShowResource(ret.id)
  /\ Get(ret, "hash") = "h1"

\* C4: a get_or_create_dataset call that expects organisation X (not None)
\* for a slug whose remote dataset is owned by another organisation returns
\* None, issues no package_update or package_create for the slug and leaves
\* the dataset's owner as it was.
C4_ConflictReturnsNone ==
  (pc = "after_ds" /\ org_id # None /\ ownerAtCall \notin {"absent", None, org_id})
  => /\ dataset_id = None
     /\ OwnerOf(CurSlug) = ownerAtCall
     /\ \A i \in Entries({"package_update", "package_create"}) : i <= callMark

\* C7: an authorization failure on any remote call aborts the run: no remote
\* call follows it, for the same item or a later one.
C7_AuthorizationIsFatal ==
  \A i \in DOMAIN log : log[i].out = "auth" => i = Len(log)

\* C8: a failure confined to one item never makes process_list raise; the
\* loop reaches the end of the list and returns its counts.
C8_FailureIsolation ==
  /\ pc # "aborted"
  /\ pc = "done" => idx = Len(items) + 1

\* position i of the run's log holds that call with that outcome
IsCall(i, act, target, out) ==
  /\ i \in DOMAIN log
  /\ log[i].act = act /\ log[i].target = target /\ log[i].out = out

\* no dataset holds two resources of one name
UniqueNames(res) ==
  \A i, j \in DOMAIN res :
    (res[i].package_id = res[j].package_id /\ res[i].name = res[j].name) => i = j

\* C16: the catalog starts with no two resources of one name in a dataset,
\* and upsert_resource keeps it so; resource_create is chosen and sent only
\* directly after a resource_search for that dataset and name that answered
\* and found no resource.
C16_ResourceNameUniqueness ==
  /\ UniqueNames(rRes)
  /\ (pc = "res_write" /\ action = "resource_create") =>
       /\ IsCall(Len(log), "resource_search", FileName(Cur), "ok")
       /\ log[Len(log)].ds = dataset_id
       /\ SearchResults(dataset_id, FileName(Cur)) = << >>
  /\ \A i \in Entries({"resource_create"}) :
       /\ IsCall(i - 1, "resource_search", log[i].target, "ok")
       /\ log[i - 1].ds = log[i].ds

\* a second run found the resource the first run created, and updated it
\* instead of creating another
C16_Witness ==
  /\ run = 2 /\ pc = "done"
  /\ Len(rRes) = 1 /\ UniqueNames(rRes)
  /\ Entries({"resource_create"}) = {}
  /\ Entries({"resource_update"}) # {}

\* the resource found by resource_search is stored with the local hash, and
\* with another value than the payload's in some compared payload field
MetadataOnlyDiffers ==
  LET r == ShowResource(existing_res.id)
      payload == WritePayload(Cur, dataset_id, existing_res.id)
  IN /\ r.id # 0
     /\ Get(r, "hash") = FileHash(Cur)
     /\ \E k \in DOMAIN payload \ SkippedKeys : Get(r, k) # payload[k]

\* C17: when resource_show returns a resource whose stored hash equals the
\* local hash while a compared payload field differs, upsert_resource goes on
\* to send resource_update for that resource, and sends it exactly once: the
\* step after the decision is the one resource_update call, for the resource
\* found, after which the loop is at its next item.
C17_MetadataOnlyChange ==
  [][ /\ (pc = "res_show" /\ MetadataOnlyDiffers
            /\ log' = Logged("resource_show", dataset_id, FileName(Cur), "ok"))
         => /\ pc' = "res_write" /\ action' = "resource_update"
            /\ existing_res' = existing_res /\ rRes' = rRes
      /\ (pc = "res_write" /\ action = "resource_update")
         => /\ \E out \in Outcomes :
                 log' = Logged("resource_update", dataset_id, FileName(Cur), out)
            /\ pc' = "loop"
            /\ (log'[Len(log')].out = "ok") =>
                 (ret'.id = existing_res.id /\ \E i \in DOMAIN rRes' : rRes'[i] = ret') ]_vars

\* a resource stored with hash h1 and format m1 has just been updated to
\* format m2, the hash unchanged, after one resource_show
C17_Witness ==
  /\ pc = "loop" /\ Len(log) >= 2
  /\ IsCall(Len(log), "resource_update", log[Len(log)].target, "ok")
  /\ IsCall(Len(log) - 1, "resource_show", log[Len(log)].target, "ok")
  /\ ret.id # 0 /\ Get(ret, "hash") = "h1" /\ ret.format = "m2"
  /\ \E i \in DOMAIN rResAtStart :
       /\ rResAtStart[i].id = ret.id
       /\ Get(rResAtStart[i], "hash") = "h1" /\ rResAtStart[i].format = "m1"
  /\ Cardinality(Entries({"resource_update"})) = 1

\* the catalog holds no resource of the current file's name in its dataset
Absent == SearchResults(dataset_id, FileName(Cur)) = << >>

\* C18: when upsert_resource is called for a path not yet processed in the
\* run and the dataset holds no resource of the name, it searches, and when
\* the search answers it chooses resource_create and sends exactly one
\* resource_create, for that dataset and name and with the file's hash in
\* the payload, and no resource_update; on success the catalog gains the one
\* record, which is returned, and the path is recorded.
C18_CreateWhenAbsent ==
  [][ /\ (pc = "upsert" /\ Absent /\ Cur.path \notin processed_resource_paths)
         => (pc' = "res_search" /\ log' = log)
      /\ (pc = "res_search" /\ Absent
            /\ log' = Logged("resource_search", dataset_id, FileName(Cur), "ok"))
         => (pc' = "res_write" /\ action' = "resource_create" /\ rRes' = rRes)
      /\ (pc = "res_write" /\ action = "resource_create")
         => /\ \E out \in Outcomes :
                 log' = Logged("resource_create", dataset_id, FileName(Cur), out)
            /\ pc' = "loop"
            /\ (log'[Len(log')].out = "ok") =>
                 /\ rRes' = Append(rRes, WritePayload(Cur, dataset_id, NextResourceId))
                 /\ ret' = rRes'[Len(rRes')]
                 /\ Get(ret', "hash") = (IF resMapHasHash THEN FileHash(Cur) ELSE None)
                 /\ Cur.path \in processed_resource_paths'
            /\ (log'[Len(log')].out # "ok") => rRes' = rRes ]_vars

\* upsert_resource has just created the resource of a hashed file after a
\* search that found nothing
C18_Witness ==
  /\ pc = "loop" /\ Len(log) >= 2
  /\ IsCall(Len(log), "resource_create", log[Len(log)].target, "ok")
  /\ IsCall(Len(log) - 1, "resource_search", log[Len(log)].target, "ok")
  /\ ret.id = Len(rRes) /\ rRes[Len(rRes)] = ret
  /\ Get(ret, "hash") = "h1"
  /\ Entries({"resource_update"}) = {}

\* C19: an upsert_resource call for a path already processed in the run
\* sends no remote call (the log is as it was), changes no resource of the
\* catalog, records nothing and returns None; process_list goes on to the
\* next item without counting a resource.
C19_DuplicateReferenceGuard ==
  [][ (pc = "upsert" /\ Cur.path \in processed_resource_paths)
      => /\ log' = log
         /\ rRes' = rRes
         /\ processed_resource_paths' = processed_resource_paths
         /\ ret' = NoResource
         /\ res_count' = res_count
         /\ pc' = "loop" /\ idx' = idx + 1 ]_vars

\* the second reference to a file created by the first has just been skipped:
\* the log ends with the call that created the resource
C19_Witness ==
  /\ pc = "loop" /\ idx = 3
  /\ items[1].path = items[2].path
  /\ items[2].path \in processed_resource_paths
  /\ ret = NoResource /\ res_count = 1
  /\ Len(log) >= 1 /\ log[Len(log)].act = "resource_create" /\ log[Len(log)].out = "ok"
  /\ Len(rRes) = 1

\* the positions of process_list inside get_or_create_dataset's remote calls
\* and after them, up to the end of the item
AfterDatasetCall == {"pkg_update", "pkg_create", "pkg_refetch", "after_ds",
                     "upsert", "res_search", "res_show", "res_write"}
DatasetAndResourceActions ==
  {"package_show", "package_update", "package_create",
   "resource_search", "resource_show", "resource_create", "resource_update"}

\* C21: while process_list is at an item whose organisation slug is not empty
\* and for which get_or_create_organization returned None, no dataset call
\* and no resource call has been sent for the item.
C21_OrganizationFailureScope ==
  (idx \in DOMAIN items /\ pc \in AfterDatasetCall /\ Cur.org # None /\ org_id = None)
  => \A i \in Entries(DatasetAndResourceActions) : i <= callMark

\* the calls of one remote action for one target in the run's log
CallsFor(act, target) == { i \in DOMAIN log : log[i].act = act /\ log[i].target = target }
OrgNames == { it.org : it \in ItemCatalogue } \ {None}
OrgCallsFor(o) == CallsFor("organization_show", o) \cup CallsFor("organization_create", o)
Last(S) == CHOOSE i \in S : \A j \in S : j <= i

\* C11: within a run each organisation slug causes at most one
\* organization_show and at most one organization_create call; the outcome is
\* cached (None after a failed call), and a call of
\* get_or_create_organization returns what the cache holds for the slug.
C11_OrganizationCache ==
  /\ \A o \in OrgNames :
       /\ Cardinality(CallsFor("organization_show", o)) <= 1
       /\ Cardinality(CallsFor("organization_create", o)) <= 1
  /\ \A o \in DOMAIN org_cache :
       /\ CallsFor("organization_show", o) # {}
       /\ log[Last(OrgCallsFor(o))].out # "ok" => org_cache[o] = None
  /\ (pc = "ensure_ds" /\ Cur.org # None)
     => (Cur.org \in DOMAIN org_cache /\ org_id = org_cache[Cur.org])

\* the second item names the organisation whose lookup failed for the first:
\* the cached None is returned and the log holds the one call
C11_Witness ==
  /\ pc = "ensure_ds" /\ idx = 2
  /\ Cur.org # None /\ items[1].org = Cur.org
  /\ org_cache[Cur.org] = None /\ org_id = None
  /\ Cardinality(OrgCallsFor(Cur.org)) = 1
  /\ log[Last(OrgCallsFor(Cur.org))].out = "auth"

\* the positions of the run's log where package_create was refused because
\* the slug had been taken since the lookup
Conflicts == { i \in DOMAIN log : log[i].act = "package_create" /\ log[i].out = "exists" }

\* C12: a package_create refused with "already exists" follows a package_show
\* that reported the slug absent and is followed by exactly one further
\* package_show of that slug; when that re-fetch is answered,
\* get_or_create_dataset returns and caches the ID of the dataset the other
\* process created.
C12_CreationRace ==
  \A i \in Conflicts :
    LET slug == log[i].target IN
      /\ IsCall(i - 1, "package_show", slug, "ok")
      /\ Cardinality(CallsFor("package_create", slug)) = 1
      /\ IF i = Len(log)
         THEN pc = "pkg_refetch" /\ CurSlug = slug /\ slug \notin DOMAIN dataset_cache
         ELSE /\ log[i + 1].act = "package_show" /\ log[i + 1].target = slug
              /\ CallsFor("package_show", slug) = {i - 1, i + 1}
              /\ slug \in DOMAIN dataset_cache
              /\ log[i + 1].out = "ok" =>
                   /\ dataset_cache[slug] = rDs[slug].id
                   /\ dataset_cache[slug] # None
                   /\ (pc = "after_ds" /\ i + 1 = Len(log)) => dataset_id = rDs[slug].id

\* the re-fetch after a conflict has just returned the other process's dataset
C12_Witness ==
  /\ pc = "after_ds"
  /\ Len(log) - 1 \in Conflicts
  /\ IsCall(Len(log), "package_show", CurSlug, "ok")
  /\ dataset_id = DatasetIdOf(CurSlug)
  /\ dataset_cache[CurSlug] = dataset_id
  /\ rDs[CurSlug].owner_org = OrgIdOf("ob") /\ rDs[CurSlug].title = "other"

\* C36: a path enters processed_resource_paths only in the step in which
\* upsert_resource returns a record with an ID for it (the matching record of
\* a no-op, or the created or updated one), and it is the path of the item at
\* the position; a step in which upsert_resource fails leaves the path out of
\* the set, and a reference to a path that is not in the set goes on to
\* resource_search.
C36_ProcessedPathsOnSuccess ==
  [][ run' = run =>
        /\ processed_resource_paths' # processed_resource_paths =>
             /\ pc \in {"res_show", "res_write"}
             /\ processed_resource_paths' = processed_resource_paths \cup {Cur.path}
             /\ ret' # NoResource /\ ret'.id # 0
             /\ log'[Len(log')].out = "ok"
        /\ (pc \in {"res_search", "res_show", "res_write"} /\ pc' = "loop" /\ ret' = NoResource) =>
             Cur.path \notin processed_resource_paths'
        /\ (pc = "upsert" /\ Cur.path \notin processed_resource_paths) =>
             pc' = "res_search" /\ idx' = idx ]_vars

\* the second reference to a file whose resource_create failed for the first
\* is attempted again
C36_Witness ==
  /\ idx = 2 /\ pc = "res_search"
  /\ items[1].path = items[2].path
  /\ Cur.path \notin processed_resource_paths
  /\ ret = NoResource
  /\ Len(log) >= 1 /\ log[Len(log)].act = "resource_create" /\ log[Len(log)].out # "ok"

\* the payload upsert_resource is about to send with resource_create or
\* resource_update
SentPayload ==
  WritePayload(Cur, dataset_id, IF action = "resource_create" THEN 0 ELSE existing_res.id)

\* C37: every resource_create and resource_update issued for a file that has
\* a local hash sends a payload whose hash field is that hash.
C37_HashInPayload ==
  [][ ( /\ pc = "res_write" /\ log' # log /\ run' = run
        /\ log'[Len(log')].act \in {"resource_create", "resource_update"}
        /\ FileHash(Cur) # None )
      => ("hash" \in DOMAIN SentPayload /\ SentPayload.hash = FileHash(Cur)) ]_vars

\* C38: every package_update that get_or_create_dataset issues carries, as
\* owner_org, the owner_org the remote dataset has.
C38_UpdateKeepsOwner ==
  [][ ( /\ pc = "pkg_update" /\ log' # log /\ run' = run
        /\ log'[Len(log')].act = "package_update" )
      => org_id = rDs[CurSlug].owner_org ]_vars

\* the calls get_or_create_dataset makes for a slug
DatasetCallsFor(s) ==
  CallsFor("package_show", s) \cup CallsFor("package_create", s)
  \cup CallsFor("package_update", s)

OrgActs == {"organization_show", "organization_create"}

DatasetActs == {"package_show", "package_create", "package_update"}

ResourceActs == {"resource_search", "resource_show", "resource_create", "resource_update"}

\* one step inside a run of process_list: the position stays or moves to the
\* next item, and a call that is made is made for the item at the position,
\* in the order organisation, dataset, resource
OrderedStep ==
  run' = run =>
    /\ idx' \in {idx, idx + 1}
    /\ log' # log =>
         /\ idx \in DOMAIN items
         /\ Len(log') = Len(log) + 1 /\ SubSeq(log', 1, Len(log)) = log
         /\ LET e == log'[Len(log')] IN
            /\ e.act \in OrgActs \cup DatasetActs \cup ResourceActs
            /\ e.act \in OrgActs =>
                 /\ e.target = Cur.org
                 /\ dataset_id = None /\ existing_res = NoResource /\ action = None
            /\ e.act \in DatasetActs =>
                 /\ e.target = CurSlug
                 /\ Cur.org = None \/ OrgCached(Cur.org)
                 /\ org_id = IF Cur.org = None THEN None ELSE org_cache[Cur.org]
                 /\ existing_res = NoResource /\ action = None
            /\ e.act \in ResourceActs =>
                 /\ e.target = FileName(Cur) /\ e.ds = dataset_id
                 /\ dataset_id # None
                 /\ DatasetCached(CurSlug) /\ dataset_cache[CurSlug] = dataset_id
                 /\ Cur.org = None \/ OrgCached(Cur.org)

\* DataPipeline.run reaches process_list only with the list scan returned:
\* nothing is handed to upsert_resource before, and the list published is the
\* list of the scan
ScanBeforeProcessList ==
  (p_pc = "publish" \/ consumed \cup refused # {}) =>
    /\ p_pc \in {"publish", "finally", "returned"}
    /\ items_to_process = all_metadata
    /\ consumed \cup refused \subseteq { all_metadata[i].path : i \in DOMAIN all_metadata }

HandedOn ==
  Range(all_metadata) \cup (IF p_pc = "pzc_returned" THEN Range(all_zip_meta) ELSE {})

\* C13: every file path recorded in a record that has been handed on and
\* whose file upsert_resource has not yet taken still names a file, archive
\* contents in the temporary extraction area included, and upsert_resource
\* is never called for a record whose file is gone.
C13_TempFilesOutliveSync ==
  /\ refused = {}
  /\ \A r \in HandedOn : r.path \notin consumed => IsFile(r.path)

\* C14: when _process_zip_contents has returned, the extraction directory it
\* made for the archive does not exist and no file is left under it, whether
\* the contents were processed, the extraction reported failure, or the
\* processing raised.
C14_PerArchiveCleanup ==
  p_pc = "pzc_returned" =>
    /\ ~DirExists(ExtractDir)
    /\ \A p \in DOMAIN z_files : ~IsUnder(p, ExtractDir)
    /\ pzc_outcome \in {"unset", "ok", "failed", "raised"}

\* the call has returned after an extraction that unpacked members and then
\* reported failure
C14_Witness ==
  /\ p_pc = "pzc_returned"
  /\ pzc_outcome = "failed"
  /\ z_top = "bad" /\ z_unpacked = << [path |-> TopZip, content |-> "bad"] >>
  /\ all_zip_meta = << >>
  /\ ~DirExists(ExtractDir) /\ DirExists(RunTempDir)

\* the exits of run that come after the scan made the run directory
ExitsAfterScan == {"empty", "published", "validation_raised", "publish_raised"}

\* C15: when run has returned by any exit that follows the scan (publishing
\* done, nothing scanned, the validation or the publishing raised), the run
\* temporary directory the scan made does not exist and holds no file.
C15_RunLevelCleanup ==
  (p_pc = "returned" /\ exit_path \in ExitsAfterScan) =>
    /\ ~DirExists(RunTempDir)
    /\ \A p \in DOMAIN z_files : ~IsUnder(p, RunTempDir)

\* run has returned after the publishing raised on the second record, the
\* first file already taken
C15_Witness ==
  /\ p_pc = "returned" /\ exit_path = "publish_raised"
  /\ publish_idx = 2 /\ consumed # {}
  /\ scan_temp_dir_to_clean = RunTempDir
  /\ ~DirExists(RunTempDir)

\* the archives that are readable themselves and hold a corrupt archive
\* beside other members, and the plain files such an archive holds directly
HoldsCorrupt(content) ==
  /\ content # "corrupt"
  /\ \E i \in DOMAIN ArchiveMembers(content) : ArchiveMembers(content)[i].content = "corrupt"
PlainMembers(content) ==
  { m \in Range(ArchiveMembers(content)) :
      m.content = "data" /\ ~m.abs /\ UP \notin Range(m.name) }

\* C20: a corrupt archive fails for itself only.  A scan that was not broken
\* off has a record for every entry of the root, the corrupt archive file
\* included; and when _process_zip_contents has gone through an archive that
\* holds a corrupt archive beside plain files, it returns a record for each
\* of those plain files.
C20_CorruptArchiveIsolation ==
  /\ (entry = "run" /\ p_pc = "scanned" /\ run_temp_dir # NoPath) =>
       \A p \in DOMAIN z_files :
         (Parent(p) = ScanRoot /\ IsFile(p)) =>
           \E r \in Range(all_metadata) : r.path = AbsPath(p)
  /\ (p_pc = "pzc_returned" /\ pzc_outcome \in {"ok", "failed"} /\ HoldsCorrupt(z_top)) =>
       \A m \in PlainMembers(z_top) :
         \E r \in Range(all_zip_meta) : r.path = ExtractDir \o m.name


\* the supported files an archive unpacks to
HoldsPlain(content) == PlainMembers(content) # {}

\* C22: when a scan that was not broken off has returned, the record of every
\* archive file of the root that holds supported files is followed in the
\* returned list by a record for a file unpacked from that archive.
C22_ArchiveContentsInScanResult ==
  (entry = "run" /\ p_pc = "scanned" /\ run_temp_dir # NoPath) =>
    \A i \in DOMAIN all_metadata :
      (all_metadata[i].type = "ZIP" /\ HoldsPlain(z_top)) =>
        \E j \in DOMAIN all_metadata : j > i /\ all_metadata[j].origin = "archive"


\* the intra-archive paths of the files an archive holds
FileMembers(content) ==
  { m.name : m \in { n \in Range(ArchiveMembers(content)) : n.content = "data" } }

\* C23: every record _process_zip_contents returns for an archive carries as
\* relative_path the archive's relative path followed by the intra-archive
\* path of a file of that archive.
C23_NestedPathComposition ==
  (entry = "contents" /\ p_pc = "pzc_returned") =>
    \A rec \in Range(all_zip_meta) :
      \E p \in FileMembers(z_top) : rec.rel = RelativeTo(TopZip, ScanRoot) \o p


\* the files of the scan root that cannot be read
Unreadable == { p \in DOMAIN z_files : Parent(p) = ScanRoot /\ z_files[p] = "locked" }

\* C24: during and after the walk of a scan, no record in the list is for a
\* path that has vanished or that cannot be read.
C24_VanishedOrUnreadablePath ==
  (entry = "run" /\ p_pc \in {"walk", "scanned"}) =>
    \A rec \in Range(all_metadata) : IsFile(rec.path) /\ rec.path \notin Unreadable


\* a step of the walk that visits, for the first time, a file that is still
\* there and that its extractor fails on
VisitsBroken(e) ==
  /\ p_pc = "walk" /\ e \in walk /\ walk' = walk \ {e}
  /\ AbsPath(e) \notin processed_paths
  /\ IsFile(e) /\ z_files[AbsPath(e)] = "broken"
  /\ AbsPath(e) \in DOMAIN z_files'

\* C25: a step of the walk that visits a file whose extractor fails appends
\* one record for that file, with the failure in its _extraction_error field,
\* and leaves scan in its loop with every other unvisited entry still to come.
C25_ExtractionFailureRecorded ==
  [][\A e \in walk :
       VisitsBroken(e) =>
         /\ Len(all_metadata') = Len(all_metadata) + 1
         /\ SubSeq(all_metadata', 1, Len(all_metadata)) = all_metadata
         /\ all_metadata'[Len(all_metadata')].path = AbsPath(e)
         /\ all_metadata'[Len(all_metadata')].err = "failed"
         /\ p_pc' = "walk"
         /\ walk' = walk \ {e}]_vars

\* the scan has returned a record with the extractor's failure, followed by
\* the record of an entry visited after it
C25_Witness ==
  /\ entry = "run" /\ p_pc = "scanned" /\ run_temp_dir # NoPath
  /\ Len(all_metadata) = 2
  /\ all_metadata[1].path = RootFile /\ all_metadata[1].err = "failed"
  /\ all_metadata[2].type = "ZIP" /\ all_metadata[2].err = None


\* C27: the list scan builds never holds two records with the same resolved
\* path.
C27_OneRecordPerPath ==
  entry = "run" =>
    \A i, j \in DOMAIN all_metadata :
      all_metadata[i].path = all_metadata[j].path => i = j

\* a scan has returned from a root where a file and a link to it were both
\* visited, with the one record of the file
C27_Witness ==
  /\ entry = "run" /\ p_pc = "scanned" /\ run_temp_dir # NoPath
  /\ {RootFile, RootLink} \subseteq DOMAIN z_files
  /\ processed_paths = {RootFile}
  /\ Len(all_metadata) = 1 /\ all_metadata[1].path = RootFile


\* C30: once run has called process_list, the list it handed over is the list
\* scan returned: the same records, in the same order, those with validation
\* issues included.
C30_ValidationIsAdvisory ==
  (p_pc = "publish" \/ exit_path \in {"published", "publish_raised"}) =>
    items_to_process = all_metadata

\* process_list has gone through a list whose first record has validation
\* issues and whose second has none
C30_Witness ==
  /\ p_pc = "publish" /\ publish_idx = 3
  /\ Len(all_metadata) = 2 /\ Len(items_to_process) = 2
  /\ Issues(items_to_process[1]) # {} /\ Issues(items_to_process[2]) = {}


\* a step of a worker thread: a future starts running or gets its result
WorkerStep ==
  /\ p_pc = "pzc_pool"
  /\ \E f \in DOMAIN futures :
       \/ futures[f].state = "pending" /\ futures'[f].state = "running"
       \/ futures[f].state = "running" /\ futures'[f].state = "done"

\* a step of the submitting thread that meets a finished future
CollectStep ==
  \E f \in DOMAIN futures : futures[f].state = "done" /\ futures'[f].state = "met"

\* C31: the workers of the pool are given files under the extraction
\* directory of the one archive only; a step of a worker leaves the scan's
\* processed paths, the organization and dataset caches, the uploaded paths,
\* the log of remote calls and the result list as they are; and while the pool
\* is at work the result list changes only in a step of the submitting thread.
C31_WorkerPoolConfinement ==
  [][/\ \A f \in DOMAIN futures' : IsUnder(f, ExtractDir)
     /\ WorkerStep =>
          UNCHANGED << processed_paths, org_cache, dataset_cache,
                       processed_resource_paths, log, all_zip_meta >>
     /\ (p_pc = "pzc_pool" /\ all_zip_meta' # all_zip_meta) => CollectStep]_vars

\* the pool at work: one call pending, one running, one finished, and one
\* met by the submitting thread, whose record is the only one in the list
C31_Witness ==
  /\ p_pc = "pzc_pool" /\ max_workers_zip = MaxWorkers
  /\ \A st \in {"pending", "running", "done", "met"} :
       \E f \in DOMAIN futures : futures[f].state = st
  /\ Len(all_zip_meta) = 1

\* C39: when _process_zip_contents has gone through the files of an unpacked
\* archive, with the worker pool or without it and in whatever order the
\* files were taken and the workers finished, the list holds exactly one
\* record for each file of the tree.
C39_PoolEqualsSequential ==
  (p_pc = "pzc_finally" /\ pzc_outcome = "ok") =>
    /\ Range(all_zip_meta) = UNION { Range(ProcessExtractedItem(f)) : f \in FilesInZip }
    /\ Len(all_zip_meta) = Cardinality(FilesInZip)

\* the pool has gone through an archive with several files, the last file
\* submitted being the first whose record is in the list
C39_Witness ==
  /\ p_pc = "pzc_finally" /\ pzc_outcome = "ok"
  /\ Cardinality(DOMAIN futures) > 2
  /\ \A f \in DOMAIN futures : futures[f].state = "met"
  /\ Len(all_zip_meta) = Cardinality(DOMAIN futures)


\* C32: a run of a pipeline whose uploader failed its connection test never
\* enters the scan, the validation or the publishing: no run directory is
\* named or made, no entry is visited, no record exists, and process_list is
\* not called.
C32_StartupConnectionGate ==
  (entry = "run" /\ ~connected) =>
    /\ p_pc \in {"start", "finally", "returned"}
    /\ run_temp_dir = NoPath /\ ~DirExists(RunTempDir)
    /\ processed_paths = {} /\ all_metadata = << >> /\ items_to_process = << >>
    /\ publish_idx = 0 /\ consumed = {} /\ refused = {}

\* a run without connection has returned, with an archive and a file waiting
\* in the scan root
C32_Witness ==
  /\ entry = "run" /\ ~connected
  /\ p_pc = "returned" /\ exit_path = "not_connected"
  /\ {TopZip, RootFile} \subseteq DOMAIN z_files


(***************************************************************************)
(* Properties of _execute_action                                           *)
(***************************************************************************)
Invocations == { i \in DOMAIN ea_events : ea_events[i].ev = "invoke" }
Sleeps == { i \in DOMAIN ea_events : ea_events[i].ev = "sleep" }
Retryable == {"CKANAPIError", "Exception"}
EaOver == ea_pc \in {"returned", "raised"}

\* C9: an invocation that raises NotAuthorized or ValidationError is the last
\* event of the call, whatever the retry count: the call raises that same
\* error on that attempt, with no sleep and no further invocation after it.
C9_NoRetryOnAuthOrValidation ==
  \A i \in Invocations :
     ea_events[i].out \in {"NotAuthorized", "ValidationError"} =>
       /\ i = Len(ea_events)
       /\ ea_pc = "raised"
       /\ ea_result = [how |-> "raised", kind |-> ea_events[i].out,
                       attempt |-> ea_events[i].attempt]

\* a ValidationError raised on the second attempt, with attempts to spare
C9_Witness ==
  /\ ea_pc = "raised" /\ ea_result.kind = "ValidationError"
  /\ ea_result.attempt = 1 /\ ea_retries = MaxRetries /\ ea_retries > 1
  /\ Len(ea_events) = 3 /\ ea_events[2].ev = "sleep"

\* C10: the remote action is invoked at most retries+1 times; a sleep of the
\* given delay follows each failed attempt but the last and precedes the next
\* attempt; a successful invocation ends the call with its value; when every
\* attempt failed with a retryable error, all retries+1 attempts were made
\* and the error raised is that of the last attempt.
C10_BoundedRetry ==
  /\ Cardinality(Invocations) <= (IF ea_retries >= 0 THEN ea_retries + 1 ELSE 0)
  /\ \A i \in Sleeps :
       /\ i > 1 /\ ea_events[i-1].ev = "invoke" /\ ea_events[i-1].out \in Retryable
       /\ ea_events[i].secs = ea_delay
       /\ ea_events[i].attempt < ea_retries
       /\ i < Len(ea_events) => ea_events[i+1].ev = "invoke"
  /\ \A i \in Invocations : i > 1 => ea_events[i-1].ev = "sleep"
  /\ \A i \in Invocations :
       ea_events[i].out = "value" =>
         /\ i = Len(ea_events)
         /\ ea_result = [how |-> "returned", kind |-> "value",
                         attempt |-> ea_events[i].attempt]
  /\ EaOver => (ea_events = << >> \/ ea_events[Len(ea_events)].ev = "invoke")
  /\ (EaOver /\ ea_connected /\ ea_retries >= 0
        /\ \A i \in Invocations : ea_events[i].out \in Retryable)
     => /\ Cardinality(Invocations) = ea_retries + 1
        /\ Cardinality(Sleeps) = ea_retries
        /\ ea_result = [how |-> "raised", kind |-> ea_events[Len(ea_events)].out,
                        attempt |-> ea_retries]

\* every attempt failed, the last with another error than the earlier ones
C10_Witness ==
  /\ ea_pc = "raised" /\ ea_retries = MaxRetries
  /\ Cardinality(Invocations) = MaxRetries + 1 /\ Cardinality(Sleeps) = MaxRetries
  /\ ea_events[1].out = "Exception"
  /\ ea_result = [how |-> "raised", kind |-> "CKANAPIError", attempt |-> MaxRetries]
  /\ ea_delay = DEFAULT_RETRY_DELAY

(***************************************************************************)
(* Properties of _extract_zip_recursive                                    *)
(***************************************************************************)
\* what the extraction added to the file system
Created == (z_dirs \ InitialDirs) \cup (DOMAIN z_files \ {TopZip})

\* the members a call in progress has gone through
Handled(fr) == 1 .. (fr.mi - 1)

\* C5: for every member whose resolved target lies outside the extraction
\* directory, nothing is created outside the extraction directory and the
\* member is skipped.
C5_PathSafety ==
  /\ \A p \in Created : IsUnder(p, ExtractDir)
  /\ \A k \in DOMAIN z_stack :
       \A i \in Handled(z_stack[k]) :
          ~IsUnder(MemberTarget(z_stack[k].dir, ArchiveMembers(z_stack[k].content)[i]),
                   z_stack[k].dir)
          => << z_stack[k].zip, i >> \in z_skipped

\* the archives nested in an archive, directly or through at most k levels
RECURSIVE NestedWithin(_, _)
NestedWithin(c, k) ==
  LET ms == ArchiveMembers(c)
      direct == { ms[i].content : i \in { j \in DOMAIN ms : IsZipName(Name(ms[j].name)) } }
  IN IF k = 0 THEN {}
     ELSE direct \cup UNION { NestedWithin(d, k - 1) : d \in direct }

Archives == TopArchives \cup {"pong", "wrap"}
SelfContaining(c) == c \in NestedWithin(c, Cardinality(Archives))
TimesUnpacked(c) == Cardinality({ i \in DOMAIN z_unpacked : z_unpacked[i].content = c })

\* C6: an archive that contains a copy of itself, directly or through nested
\* archives, is unpacked at most once during a call.
C6_CycleSafety ==
  \A c \in Archives : SelfContaining(c) => TimesUnpacked(c) <= 1


\* C26: during one top-level call of _extract_zip_recursive no resolved
\* archive path is opened and unpacked more than once.
C26_VisitedSet ==
  \A i, j \in DOMAIN z_unpacked : z_unpacked[i].path = z_unpacked[j].path => i = j


\* C35: two distinct nested archives a call has found under its extraction
\* directory and is going to unpack are given two distinct subdirectories.
C35_FreshNestedDirectories ==
  \A n \in DOMAIN z_stack :
    LET fr == z_stack[n] IN
    fr.phase = "nested" =>
      \A a, b \in fr.todo \ fr.processed :
        a # b => NestedDir(fr.dir, a, fr.zip) # NestedDir(fr.dir, b, fr.zip)


(***************************************************************************)
(* Properties of _generate_slug and of transform                           *)
(***************************************************************************)
\* the slug of a name before it is cut to max_length
Uncut(name) == GenerateSlug(name, Len(name) + 1)

\* C28: the same name yields the same slug, and two distinct names whose
\* uncut slugs agree on their first max_length characters yield two distinct
\* slugs.
C28_SlugGeneration ==
  fn_pc = "slugs_returned" =>
    /\ fn_names[1] = fn_names[2] => fn_slugs[1] = fn_slugs[2]
    /\ ( /\ fn_names[1] # fn_names[2]
         /\ Truncate(Uncut(fn_names[1]), fn_max_length)
              = Truncate(Uncut(fn_names[2]), fn_max_length) )
       => fn_slugs[1] # fn_slugs[2]

\* C29: the mapping transform returns has a non-empty title, the mapped title
\* or else the file name, and a non-empty name, the mapped name or else a slug.
C29_TitleAndNameDefaults ==
  fn_pc = "transform_returned" =>
    /\ Truthy(fn_out.title)
    /\ Truthy(fn_out.name)
    /\ Truthy(fn_metadata.titel) => fn_out.title = fn_metadata.titel
    /\ Truthy(fn_metadata.name) => fn_out.name = fn_metadata.name


CleanInit == SyncInit(ItemLists) /\ budget = 0 /\ RetryParked /\ ZipParked /\ PipeParked /\ FnParked /\ SingleZipParked
CleanNext == RunStep \/ AlterFile \/ AlterMeta
SpecClean == CleanInit /\ [][CleanNext]_vars

\* runs in which remote calls may fail and another client may create a dataset
Init == SyncInit(FaultLists) /\ budget = MaxFaults /\ RetryParked /\ ZipParked /\ PipeParked /\ FnParked /\ SingleZipParked
Next == RunStep \/ PkgRefetch
Spec == Init /\ [][Next]_vars

\* one call of _extract_zip_recursive
InitZip == SyncParked /\ RetryParked /\ ZipInit /\ PipeParked /\ FnParked /\ SingleZipParked
SpecZip == InitZip /\ [][ZipNext]_vars

\* one call of _execute_action
InitRetry == SyncParked /\ RetryInit /\ ZipParked /\ PipeParked /\ FnParked /\ SingleZipParked
SpecRetry == InitRetry /\ [][RetryNext]_vars

\* one call of DataPipeline.run, or of _process_zip_contents
InitPipe == SyncParked /\ RetryParked /\ PipeInit /\ FnParked /\ SingleZipParked
SpecPipe == InitPipe /\ [][PipeNext]_vars

\* calls of _generate_slug and of transform
InitFn == SyncParked /\ RetryParked /\ ZipParked /\ PipeParked /\ FnInit /\ SingleZipParked
SpecFn == InitFn /\ [][FnNext]_vars


\* one source ZIP through Pipeline._process_single_zip
InitSingleZip == SyncParked /\ RetryParked /\ ZipParked /\ PipeParked /\ FnParked /\ SingleZipInit
SpecSingleZip == InitSingleZip /\ [][SingleZipNext]_vars

====
